---- MODULE Spec2Model ----
(***************************************************************************)
(* A model of the search-indexer ingest pipeline.                          *)
(*                                                                         *)
(*  - the request limiter (pkg/server/requestLimiter.go), specification    *)
(*    SpecLimiter;                                                         *)
(*  - the batch engine batchWithRetry (pkg/database/connection.go,         *)
(*    lines 213-440), specification SpecBatch;                             *)
(*  - the sync handler that drives the batch engine for one request,       *)
(*    specifications SpecSync and SpecResubmit;                            *)
(*  - the cluster lifecycle (pkg/database/upsertCluster.go and             *)
(*    pkg/clustersync/clusterSync.go), specification SpecCluster.          *)
(***************************************************************************)
EXTENDS Integers, Sequences, FiniteSets, TLC

(***************************************************************************)
(* Bounds of the model.                                                    *)
(***************************************************************************)
\* Number of HTTP requests that arrive during one behaviour.
NumRequests == 2
\* config.Cfg.RequestLimit (REQUEST_LIMIT, default 50), kept small.
RequestLimit == 1
\* Database operations one sync handler issues at most.
MaxDbOps == 1

\* dao.batchSize (DB_BATCH_SIZE, default 500), kept small.
BatchSize == 2
\* Items the caller passes to Queue during one request, at most.
MaxQueue == 4
\* Rows of the request the database rejects, at most.
MaxBadRows == 1
\* Round trips of one request whose Close returns an error, at most.
MaxCloseErrors == 1

Reqs == 1..NumRequests
LocalCluster == "local-cluster"
Clusters == {LocalCluster, "cluster-a", "cluster-b"}
NoCluster == ""

\* Bodies of the two 429 answers (requestLimiter.go:43 and :49).
PreviousRequestMsg == "A previous request from this cluster is processing, retry later."
TooManyRequestsMsg == "Indexer has too many pending requests, retry later."
NoBody == ""

VARIABLES
    \* ---- request limiter ----
    requestTracker,          \* keys of the map requestTracker (the time values are only logged)
    rpc,                     \* position of each request in the middleware
    clusterName,             \* params["id"] of each request
    requestCount,            \* local requestCount := len(requestTracker)
    foundClusterProcessing,  \* local result of the lookup requestTracker[clusterName]
    responseBody,            \* body of the 429 written by the limiter, NoBody if none
    served,                  \* next.ServeHTTP was invoked for the request
    dbOps,                   \* database operations the request's handler issued
    handlerOutcome           \* how the handler left: "none", "ok", "error", "panic"

limiterVars == <<requestTracker, rpc, clusterName, requestCount, foundClusterProcessing,
                 responseBody, served, dbOps, handlerOutcome>>

VARIABLES
    \* ---- batch engine: the fields of batchWithRetry ----
    connError,               \* b.connError, NoError while nil
    items,                   \* b.items
    resourceInsertQ,         \* b.resourceInsertQ
    edgeInsertQ,             \* b.edgeInsertQ
    syncResponse,            \* the error arrays of *b.syncResponse
    wg,                      \* counter of b.wg
    \* ---- goroutines of the request ----
    workers,                 \* one entry per `go b.sendBatch(items)`: snapshot, call stack
                             \* and round trips made so far
    crashed,                 \* a goroutine panicked: the process is gone
    mpc,                     \* position of the goroutine that calls Queue and flush
    queued,                  \* the items the caller has passed to Queue so far
    totals,                  \* totalResources and totalEdges of the response
    \* ---- database ----
    badRows,                 \* rows the database rejects (constraint, type, ...)
    applied,                 \* how often each statement was executed and committed
    dbResources,             \* uids in search.resources for the cluster
    dbEdges,                 \* edges in search.edges for the cluster
    closeErrors              \* round trips whose Close returned an error so far

batchVars == <<connError, items, resourceInsertQ, edgeInsertQ, syncResponse, wg,
               workers, crashed, mpc, queued, totals,
               badRows, applied, dbResources, dbEdges, closeErrors>>

VARIABLES
    \* ---- sync handler: one POST /aggregator/clusters/{id}/sync ----
    payload,                 \* the body of the request
    toQueue,                 \* items of the payload the handler has not passed to Queue yet
    existing,                \* rows the reconciliation read queries returned
    reads,                   \* reconciliation read queries that have completed
    dbCalled,                \* calls of the reconciliation and the count, and their errors
    syncTotals,              \* TotalDeleted and TotalEdgesDeleted of the response
    status,                  \* HTTP status written, NoStatus before
    body,                    \* body written: NoBody, ServerErrorMsg or SyncResponseJson
    round,                   \* how often the payload has been submitted
    dbAfterFirst             \* the tables when the first submission was answered

syncVars == <<payload, toQueue, existing, reads, dbCalled, syncTotals, status, body,
              round, dbAfterFirst>>

VARIABLES
    \* ---- cluster lifecycle ----
    cpc,                     \* position of the informer event handler
    event,                   \* the informer event being handled
    resource,                \* model.Resource built from the event by the transform
    existingClustersCache,   \* the cluster cache: clusterUID -> properties
    clusterNodes,            \* rows cluster__{name} of search.resources: uid -> data
    clusterRows,             \* committed rows with cluster = name: resources and edges
    tx,                      \* the transaction of the running DeleteClusterResourcesTxn
    leakedTxs,               \* transactions left neither committed nor rolled back
    retry,                   \* retry counter of deleteWithRetry
    dbFailures,              \* database and query-building errors so far
    trail,                   \* calls the handler of the current event has made, in order
    entry,                   \* the cache and the tables when the current event arrived
    handled,                 \* informer events delivered so far
    slept,                   \* milliseconds deleteWithRetry slept before each retry of its call
    \* ---- the two informers' handlers running concurrently ----
    mux,                     \* holder of mux (clusterSync.go:122), NoHolder while unlocked
    hpc,                     \* position of each informer's handler
    hevent,                  \* the event each handler is handling
    hresource,               \* the model.Resource each handler has built
    inbox,                   \* events each informer has still to deliver, in order
    known,                   \* the control plane has the ManagedCluster
    lastWritten,             \* properties of the last INSERT that succeeded
    changes,                 \* control-plane changes so far
    \* ---- the lock of the cluster cache ----
    cacheLock,               \* the read-write lock: its writer and its readers
    accessing,               \* the access to the cache map each handler is making
    \* ---- the informer supervisors ----
    ctxDone,                 \* the context of syncClusters is cancelled
    supervisor               \* stopAndStartInformer of each group/version: its locals

cacheVars == <<cacheLock, accessing>>
supervisorVars == <<ctxDone, supervisor>>
informerVars == <<mux, hpc, hevent, hresource, inbox, known, lastWritten, changes,
                  cacheVars, supervisorVars>>
clusterVars == <<cpc, event, resource, existingClustersCache, clusterNodes, clusterRows,
                 tx, leakedTxs, retry, dbFailures, trail, entry, handled, slept,
                 informerVars>>

vars == <<limiterVars, batchVars, syncVars, clusterVars>>

(***************************************************************************)
(* Request limiter: requestLimiterMiddleware.                              *)
(***************************************************************************)
InitLimiter ==
    /\ requestTracker = {}
    /\ rpc = [r \in Reqs |-> "idle"]
    /\ clusterName = [r \in Reqs |-> NoCluster]
    /\ requestCount = [r \in Reqs |-> 0]
    /\ foundClusterProcessing = [r \in Reqs |-> FALSE]
    /\ responseBody = [r \in Reqs |-> NoBody]
    /\ served = [r \in Reqs |-> FALSE]
    /\ dbOps = [r \in Reqs |-> 0]
    /\ handlerOutcome = [r \in Reqs |-> "none"]

\* The router hands request r for cluster c to the middleware (lines 22-24).
\* Requests are numbered in their order of arrival.
Arrive(r, c) ==
    /\ rpc[r] = "idle"
    /\ \A q \in Reqs : q < r => rpc[q] # "idle"
    /\ clusterName' = [clusterName EXCEPT ![r] = c]
    /\ rpc' = [rpc EXCEPT ![r] = "read"]
    /\ UNCHANGED <<batchVars, syncVars, clusterVars, requestTracker, requestCount, foundClusterProcessing, responseBody,
                   served, dbOps, handlerOutcome>>

\* Lines 34-38: under RLock, read the size of the map and look the cluster up.
ReadTracker(r) ==
    /\ rpc[r] = "read"
    /\ requestCount' = [requestCount EXCEPT ![r] = Cardinality(requestTracker)]
    /\ foundClusterProcessing' =
           [foundClusterProcessing EXCEPT ![r] = clusterName[r] \in requestTracker]
    /\ rpc' = [rpc EXCEPT ![r] = "decide"]
    /\ UNCHANGED <<batchVars, syncVars, clusterVars, requestTracker, clusterName, responseBody, served, dbOps, handlerOutcome>>

\* The tracker map as a limiter rejection leaves it: both rejections return
\* before the insert and before the deferred delete is registered (lines 40-51).
TrackerAfterRejectReleasing(c) == requestTracker \ {c}
TrackerAfterReject(c) == requestTracker

\* Line 47: the global cap, from which "local-cluster" is exempt.
OverLimitNoExemption(count, c) == count >= RequestLimit
OverLimit(count, c) == count >= RequestLimit /\ c # LocalCluster

\* Lines 40-51: the rule that decides a request, from what it read under RLock.
LimiterRuleCapFirst(found, count, c) ==
    IF OverLimit(count, c) THEN "tooMany" ELSE IF found THEN "previous" ELSE "admit"
LimiterRule(found, count, c) ==
    IF found THEN "previous" ELSE IF OverLimit(count, c) THEN "tooMany" ELSE "admit"
RuleFor(r) == LimiterRule(foundClusterProcessing[r], requestCount[r], clusterName[r])

\* Lines 40-45: a request of this cluster is in the map.
RejectPrevious(r) ==
    /\ rpc[r] = "decide"
    /\ RuleFor(r) = "previous"
    /\ responseBody' = [responseBody EXCEPT ![r] = PreviousRequestMsg]
    /\ requestTracker' = TrackerAfterReject(clusterName[r])
    /\ rpc' = [rpc EXCEPT ![r] = "rejected"]
    /\ UNCHANGED <<batchVars, syncVars, clusterVars, clusterName, requestCount, foundClusterProcessing, served, dbOps,
                   handlerOutcome>>

\* Lines 47-51: too many requests in flight.
RejectTooMany(r) ==
    /\ rpc[r] = "decide"
    /\ RuleFor(r) = "tooMany"
    /\ responseBody' = [responseBody EXCEPT ![r] = TooManyRequestsMsg]
    /\ requestTracker' = TrackerAfterReject(clusterName[r])
    /\ rpc' = [rpc EXCEPT ![r] = "rejected"]
    /\ UNCHANGED <<batchVars, syncVars, clusterVars, clusterName, requestCount, foundClusterProcessing, served, dbOps,
                   handlerOutcome>>

\* Lines 53-63: under Lock, insert clusterName -> now; then register the
\* deferred delete and enter next.ServeHTTP(w, r). The decision was taken on the
\* values read under the earlier RLock, which has been released since.
Admit(r) ==
    /\ rpc[r] = "decide"
    /\ RuleFor(r) = "admit"
    /\ requestTracker' = requestTracker \cup {clusterName[r]}
    /\ served' = [served EXCEPT ![r] = TRUE]
    /\ rpc' = [rpc EXCEPT ![r] = "handler"]
    /\ UNCHANGED <<batchVars, syncVars, clusterVars, clusterName, requestCount, foundClusterProcessing, responseBody,
                   dbOps, handlerOutcome>>

\* The wrapped sync handler issues a database operation.
HandlerWork(r) ==
    /\ rpc[r] = "handler"
    /\ dbOps[r] < MaxDbOps
    /\ dbOps' = [dbOps EXCEPT ![r] = @ + 1]
    /\ UNCHANGED <<batchVars, syncVars, clusterVars, requestTracker, rpc, clusterName, requestCount, foundClusterProcessing,
                   responseBody, served, handlerOutcome>>

\* The wrapped handler leaves: it returned, answered an error, or panicked.
HandlerExit(r, how) ==
    /\ rpc[r] = "handler"
    /\ handlerOutcome' = [handlerOutcome EXCEPT ![r] = how]
    /\ rpc' = [rpc EXCEPT ![r] = "deferred"]
    /\ UNCHANGED <<batchVars, syncVars, clusterVars, requestTracker, clusterName, requestCount, foundClusterProcessing,
                   responseBody, served, dbOps>>

\* Lines 57-61: the deferred function, which runs on every way out of the
\* handler, deletes the cluster's entry under Lock.
TrackerAfterExitNoDefer(c, how) == IF how = "panic" THEN requestTracker ELSE requestTracker \ {c}
TrackerAfterExit(c, how) == requestTracker \ {c}

Release(r) ==
    /\ rpc[r] = "deferred"
    /\ requestTracker' = TrackerAfterExit(clusterName[r], handlerOutcome[r])
    /\ rpc' = [rpc EXCEPT ![r] = "done"]
    /\ UNCHANGED <<batchVars, syncVars, clusterVars, clusterName, requestCount, foundClusterProcessing, responseBody, served,
                   dbOps, handlerOutcome>>

NextLimiter ==
    \/ \E r \in Reqs, c \in Clusters : Arrive(r, c)
    \/ \E r \in Reqs : ReadTracker(r)
    \/ \E r \in Reqs : RejectPrevious(r)
    \/ \E r \in Reqs : RejectTooMany(r)
    \/ \E r \in Reqs : Admit(r)
    \/ \E r \in Reqs : HandlerWork(r)
    \/ \E r \in Reqs, how \in {"ok", "error", "panic"} : HandlerExit(r, how)
    \/ \E r \in Reqs : Release(r)

\* A request is in flight from its insert into the map until its deferred delete.
InFlight(r) == rpc[r] \in {"handler", "deferred"}
\* The wrapped handler of the request is running.
Running(r) == rpc[r] = "handler"
\* The limiter answered the request 429.
Rejected(r) == rpc[r] = "rejected"

(***************************************************************************)
(* Batch engine: batchWithRetry (connection.go, lines 213-440).            *)
(***************************************************************************)
NoError == "nil"
\* Errors a driver Close can return; the first two are connection-fatal.
CloseErrorKinds == {"unexpected EOF", "failed to connect", "context canceled"}
\* Line 342: strings.Contains(closeErr.Error(), "unexpected EOF") or "failed to connect".
IsConnFatalOnlyFailedToConnect(e) == e = "failed to connect"
IsConnFatalOnlyEOF(e) == e = "unexpected EOF"
IsConnFatalAnyError(e) == TRUE
IsConnFatal(e) == e \in {"unexpected EOF", "failed to connect"}
FailedToConnect == "Failed to connect to database."
ExecError == "exec error"
\* Line 374: the message of every recorded SyncError.
SyncErrorMessage == "Resource generated an error while updating the database."

\* The items a caller can pass to Queue: batchItem{action, uid, args}; the row
\* an item carries (its args) is identified by its uid.
CallerItem(a, u) == [action |-> a, uid |-> u, values |-> <<u>>]
InputItems ==
    {CallerItem("addResource", "r1"), CallerItem("addResource", "r2"),
     CallerItem("updateResource", "u1"), CallerItem("deleteResource", "d1"),
     CallerItem("addEdge", "e1"), CallerItem("deleteEdge", "e2")}
RowIds == {i.uid : i \in InputItems}

\* Lines 281-286 and 404-409: the bulk INSERT built from the queued rows.
BulkItem(a, rows) == [action |-> a, uid |-> "", values |-> rows]

EmptyResponse ==
    [AddErrors |-> <<>>, UpdateErrors |-> <<>>, DeleteErrors |-> <<>>,
     AddEdgeErrors |-> <<>>, DeleteEdgeErrors |-> <<>>]
ErrorArrays == DOMAIN EmptyResponse
NilArray == "nil"

\* Lines 358-372: the response array an action's error goes to; the pointer
\* stays nil for any other action.
ErrorArrayForBulkToo(action) ==
    CASE action \in {"addResource", "bulkResources"} -> "AddErrors"
      [] action = "updateResource" -> "UpdateErrors"
      [] action = "deleteResource" -> "DeleteErrors"
      [] action \in {"addEdge", "bulkInsertEdges"} -> "AddEdgeErrors"
      [] action = "deleteEdge" -> "DeleteEdgeErrors"
      [] OTHER -> NilArray
ErrorArrayFor(action) ==
    CASE action = "addResource" -> "AddErrors"
      [] action = "updateResource" -> "UpdateErrors"
      [] action = "deleteResource" -> "DeleteErrors"
      [] action = "addEdge" -> "AddEdgeErrors"
      [] action = "deleteEdge" -> "DeleteEdgeErrors"
      [] OTHER -> NilArray

\* Line 374: the error recorded for an item.
SyncError(item) == [ResourceUID |-> item.uid, Message |-> SyncErrorMessage]

InitBatch ==
    /\ connError = NoError
    /\ items = <<>>
    /\ resourceInsertQ = <<>>
    /\ edgeInsertQ = <<>>
    /\ syncResponse = EmptyResponse
    /\ wg = 0
    /\ workers = <<>>
    /\ crashed = FALSE
    /\ mpc = "queue"
    /\ queued = {}
    /\ totals = [TotalResources |-> 0, TotalEdges |-> 0]
    /\ badRows \in {b \in SUBSET RowIds : Cardinality(b) <= MaxBadRows}
    /\ applied = <<>>
    /\ dbResources = {"u1", "d1"}
    /\ dbEdges = {"e2"}
    /\ closeErrors = 0

\* A frame of sendBatch(items) on a worker's stack.
Frame(its) ==
    [items |-> its, pc |-> "send", execErr |-> NoError, closeErr |-> NoError,
     err1 |-> NoError, array |-> <<>>, result |-> NoError]

\* `go b.sendBatch(items)`: a new goroutine with the snapshot (lines 316-319, 435-438).
Dispatch(snapshot) ==
    Append(workers, [snapshot |-> snapshot, stack |-> <<Frame(snapshot)>>, trips |-> 0])

\* Lines 271-313 of Queue: what the item does to items and the two insert queues.
QueueItemsLateBulk(item) ==
    IF item.action = "addResource" THEN
        IF Len(resourceInsertQ) + 1 > BatchSize
        THEN Append(items, BulkItem("bulkResources", Append(resourceInsertQ, item.values[1])))
        ELSE items
    ELSE IF item.action = "addEdge" THEN
        IF Len(edgeInsertQ) + 1 > BatchSize
        THEN Append(items, BulkItem("bulkInsertEdges", Append(edgeInsertQ, item.values[1])))
        ELSE items
    ELSE Append(items, item)
QueueItems(item) ==
    IF item.action = "addResource" THEN
        IF Len(resourceInsertQ) + 1 >= BatchSize
        THEN Append(items, BulkItem("bulkResources", Append(resourceInsertQ, item.values[1])))
        ELSE items
    ELSE IF item.action = "addEdge" THEN
        IF Len(edgeInsertQ) + 1 >= BatchSize
        THEN Append(items, BulkItem("bulkInsertEdges", Append(edgeInsertQ, item.values[1])))
        ELSE items
    ELSE Append(items, item)

QueueResourceInsertQ(item) ==
    IF item.action = "addResource"
    THEN IF Len(resourceInsertQ) + 1 >= BatchSize THEN <<>>
         ELSE Append(resourceInsertQ, item.values[1])
    ELSE resourceInsertQ

QueueEdgeInsertQ(item) ==
    IF item.action = "addEdge"
    THEN IF Len(edgeInsertQ) + 1 >= BatchSize THEN <<>>
         ELSE Append(edgeInsertQ, item.values[1])
    ELSE edgeInsertQ

\* Line 268: `b.connError != nil`, read by Queue without synchronisation while
\* a worker may write it (line 343).
ConnErrorSetNever(err) == FALSE
ConnErrorSet(err) == err # NoError

\* Queue(item), lines 267-322, while connError is nil.
Queue(item) ==
    /\ mpc = "queue" /\ ~crashed
    /\ item \notin queued /\ Cardinality(queued) < MaxQueue
    /\ ~ConnErrorSet(connError)
    /\ queued' = queued \cup {item}
    /\ resourceInsertQ' = QueueResourceInsertQ(item)
    /\ edgeInsertQ' = QueueEdgeInsertQ(item)
    /\ LET pending == QueueItems(item)
       IN  IF Len(pending) >= BatchSize
           THEN /\ items' = <<>>
                /\ wg' = wg + 1
                /\ workers' = Dispatch(pending)
           ELSE /\ items' = pending
                /\ UNCHANGED <<wg, workers>>
    /\ UNCHANGED <<limiterVars, syncVars, clusterVars, connError, syncResponse, crashed, mpc, totals, badRows, applied,
                   dbResources, dbEdges, closeErrors>>

\* Queue(item), lines 268-270: connError is set, the item is refused; the
\* caller gives the request up.
QueueRefused(item) ==
    /\ mpc = "queue" /\ ~crashed
    /\ item \notin queued /\ Cardinality(queued) < MaxQueue
    /\ ConnErrorSet(connError)
    /\ mpc' = "failed"
    /\ UNCHANGED <<limiterVars, syncVars, clusterVars, connError, items, resourceInsertQ, edgeInsertQ, syncResponse, wg, workers,
                   crashed, queued, totals, badRows, applied, dbResources, dbEdges,
                   closeErrors>>

\* flush(), lines 395-440: the residual inserts become bulk items and the
\* pending items are handed to a new goroutine; flush then returns.
FlushItemsOnlyPending == items
FlushItems ==
    LET withResources ==
            IF Len(resourceInsertQ) > 0
            THEN Append(items, BulkItem("bulkResources", resourceInsertQ))
            ELSE items
    IN  IF Len(edgeInsertQ) > 0
        THEN Append(withResources, BulkItem("bulkInsertEdges", edgeInsertQ))
        ELSE withResources

Flush ==
    /\ mpc = "queue" /\ ~crashed
    /\ resourceInsertQ' = <<>>
    /\ edgeInsertQ' = <<>>
    /\ items' = <<>>
    /\ IF Len(FlushItems) > 0
       THEN /\ wg' = wg + 1
            /\ workers' = Dispatch(FlushItems)
       ELSE UNCHANGED <<wg, workers>>
    /\ mpc' = "flushed"
    /\ UNCHANGED <<limiterVars, syncVars, clusterVars, connError, syncResponse, crashed, queued, totals, badRows, applied,
                   dbResources, dbEdges, closeErrors>>

\* ---- the database behind dao.pool ----
Range(sq) == {sq[i] : i \in DOMAIN sq}

\* The database rejects a statement that carries a row it rejects.
StatementRejected(item) == \E i \in DOMAIN item.values : item.values[i] \in badRows

\* Both tables have a primary key (connection.go:96-101) and the bulk statement
\* is a plain INSERT INTO ... VALUES (lines 282 and 405 for search.resources, 300
\* and 421 for search.edges): it fails when one of its rows is already stored.
PrimaryKeyConflict(item) ==
    \/ item.action = "bulkResources" /\ Range(item.values) \cap dbResources # {}
    \/ item.action = "bulkInsertEdges" /\ Range(item.values) \cap dbEdges # {}

\* pgx.Batch is processed as one transaction: Exec fails if any statement fails.
BatchExecError(its) ==
    IF \E i \in DOMAIN its : StatementRejected(its[i]) \/ PrimaryKeyConflict(its[i])
    THEN ExecError ELSE NoError

\* The tables after the statements of a committed batch.
ResourcesAfter(res, its) ==
    (res \cup UNION {Range(its[i].values) : i \in {j \in DOMAIN its : its[j].action = "bulkResources"}})
        \ {its[i].uid : i \in {j \in DOMAIN its : its[j].action = "deleteResource"}}
EdgesAfter(edg, its) ==
    (edg \cup UNION {Range(its[i].values) : i \in {j \in DOMAIN its : its[j].action = "bulkInsertEdges"}})
        \ {its[i].uid : i \in {j \in DOMAIN its : its[j].action = "deleteEdge"}}
AppliedAfter(bag, its) ==
    [it \in DOMAIN bag \cup Range(its) |->
        (IF it \in DOMAIN bag THEN bag[it] ELSE 0) + (IF it \in Range(its) THEN 1 ELSE 0)]
TimesApplied(it) == IF it \in DOMAIN applied THEN applied[it] ELSE 0

\* ---- sendBatch, lines 326-392 ----
Live(w) == w \in DOMAIN workers /\ Len(workers[w].stack) > 0
Top(w) == workers[w].stack[Len(workers[w].stack)]
WithTop(w, f) ==
    [workers EXCEPT ![w].stack = [@ EXCEPT ![Len(@)] = f]]
Push(w, f, g) ==
    [workers EXCEPT ![w].stack = Append([@ EXCEPT ![Len(@)] = f], g)]

\* Lines 383-384: items[:len(items)/2] and items[len(items)/2:].
FirstHalfEmpty(its) == <<>>
FirstHalf(its) == SubSeq(its, 1, Len(its) \div 2)
SecondHalf(its) == SubSeq(its, (Len(its) \div 2) + 1, Len(its))

\* Line 382: b.wg.Add(2) before the two retries.
WgBeforeRetriesNoAdd(n) == n
WgBeforeRetriesAddOne(n) == n + 1
WgBeforeRetries(n) == n + 2

\* Lines 387-391: the error sendBatch returns after the two retries.
RetryResult(err1, err2, execErr) ==
    IF err1 # NoError /\ err2 # NoError THEN NoError ELSE execErr

\* Lines 333-340: one round trip: SendBatch, Exec, Close. The batch is
\* committed when neither Exec nor Close reports an error.
RoundTrip(w, closeErr) ==
    /\ ~crashed /\ Live(w) /\ Top(w).pc = "send"
    /\ closeErr # NoError => closeErrors < MaxCloseErrors
    /\ LET its == Top(w).items
           execErr == BatchExecError(its)
           commit == execErr = NoError /\ closeErr = NoError
       IN  /\ workers' = [WithTop(w, [Top(w) EXCEPT !.pc = "process", !.execErr = execErr,
                                                    !.closeErr = closeErr])
                             EXCEPT ![w].trips = @ + 1]
           /\ applied' = IF commit THEN AppliedAfter(applied, its) ELSE applied
           /\ dbResources' = IF commit THEN ResourcesAfter(dbResources, its) ELSE dbResources
           /\ dbEdges' = IF commit THEN EdgesAfter(dbEdges, its) ELSE dbEdges
    /\ closeErrors' = IF closeErr # NoError THEN closeErrors + 1 ELSE closeErrors
    /\ UNCHANGED <<limiterVars, syncVars, clusterVars, connError, items, resourceInsertQ, edgeInsertQ, syncResponse, wg, crashed,
                   mpc, queued, totals, badRows>>

\* Lines 341-349: Close returned an error: no retry.
CloseFailed(w) ==
    /\ ~crashed /\ Live(w) /\ Top(w).pc = "process"
    /\ Top(w).closeErr # NoError
    /\ connError' = IF IsConnFatal(Top(w).closeErr) THEN Top(w).closeErr ELSE connError
    /\ workers' = WithTop(w, [Top(w) EXCEPT
           !.pc = "return",
           !.result = IF IsConnFatal(Top(w).closeErr) THEN FailedToConnect ELSE Top(w).closeErr])
    /\ UNCHANGED <<limiterVars, syncVars, clusterVars, items, resourceInsertQ, edgeInsertQ, syncResponse, wg, crashed, mpc, queued,
                   totals, badRows, applied, dbResources, dbEdges, closeErrors>>

\* Line 391 with execErr nil: the batch went through.
BatchSucceeded(w) ==
    /\ ~crashed /\ Live(w) /\ Top(w).pc = "process"
    /\ Top(w).closeErr = NoError /\ Top(w).execErr = NoError
    /\ workers' = WithTop(w, [Top(w) EXCEPT !.pc = "return", !.result = Top(w).execErr])
    /\ UNCHANGED <<limiterVars, syncVars, clusterVars, connError, items, resourceInsertQ, edgeInsertQ, syncResponse, wg, crashed,
                   mpc, queued, totals, badRows, applied, dbResources, dbEdges, closeErrors>>

\* Lines 353-373: a single item failed: pick its error array and read it for the
\* append. Dereferencing the nil pointer left by the default case panics.
SingleItemFailed(w) ==
    /\ ~crashed /\ Live(w) /\ Top(w).pc = "process"
    /\ Top(w).closeErr = NoError /\ Top(w).execErr # NoError
    /\ Len(Top(w).items) = 1
    /\ LET errorArray == ErrorArrayFor(Top(w).items[1].action)
       IN  IF errorArray = NilArray
           THEN /\ crashed' = TRUE
                /\ UNCHANGED workers
           ELSE /\ workers' = WithTop(w, [Top(w) EXCEPT !.pc = "append",
                                                       !.array = syncResponse[errorArray]])
                /\ UNCHANGED crashed
    /\ UNCHANGED <<limiterVars, syncVars, clusterVars, connError, items, resourceInsertQ, edgeInsertQ, syncResponse, wg, mpc,
                   queued, totals, badRows, applied, dbResources, dbEdges, closeErrors>>

\* Lines 373-376: store the appended array; the error is processed, return nil.
AppendSyncError(w) ==
    /\ ~crashed /\ Live(w) /\ Top(w).pc = "append"
    /\ syncResponse' =
           [syncResponse EXCEPT ![ErrorArrayFor(Top(w).items[1].action)] =
               Append(Top(w).array, SyncError(Top(w).items[1]))]
    /\ workers' = WithTop(w, [Top(w) EXCEPT !.pc = "return", !.array = <<>>,
                                            !.result = NoError])
    /\ UNCHANGED <<limiterVars, syncVars, clusterVars, connError, items, resourceInsertQ, edgeInsertQ, wg, crashed, mpc, queued,
                   totals, badRows, applied, dbResources, dbEdges, closeErrors>>

\* Lines 378-383: several items failed: announce two retries and call the first.
Bisect(w) ==
    /\ ~crashed /\ Live(w) /\ Top(w).pc = "process"
    /\ Top(w).closeErr = NoError /\ Top(w).execErr # NoError
    /\ Len(Top(w).items) # 1
    /\ wg' = WgBeforeRetries(wg)
    /\ workers' = Push(w, [Top(w) EXCEPT !.pc = "half1"], Frame(FirstHalf(Top(w).items)))
    /\ UNCHANGED <<limiterVars, syncVars, clusterVars, connError, items, resourceInsertQ, edgeInsertQ, syncResponse, crashed, mpc,
                   queued, totals, badRows, applied, dbResources, dbEdges, closeErrors>>

\* A call of sendBatch returns: the deferred b.wg.Done() (line 327) runs, and
\* the calling sendBatch, if any, goes on at line 384 or at line 387.
Return(w) ==
    /\ ~crashed /\ Live(w) /\ Top(w).pc = "return"
    /\ wg' = wg - 1
    /\ LET stack == workers[w].stack
           n == Len(stack)
           result == Top(w).result
       IN  IF n = 1
           THEN workers' = [workers EXCEPT ![w].stack = <<>>]
           ELSE LET caller == stack[n - 1]
                IN  IF caller.pc = "half1"
                    THEN workers' = [workers EXCEPT ![w].stack =
                             SubSeq(stack, 1, n - 2)
                                 \o <<[caller EXCEPT !.pc = "half2", !.err1 = result],
                                      Frame(SecondHalf(caller.items))>>]
                    ELSE workers' = [workers EXCEPT ![w].stack =
                             SubSeq(stack, 1, n - 2)
                                 \o <<[caller EXCEPT
                                         !.pc = "return", !.err1 = NoError,
                                         !.result = RetryResult(caller.err1, result,
                                                                caller.execErr)]>>]
    /\ UNCHANGED <<limiterVars, syncVars, clusterVars, connError, items, resourceInsertQ, edgeInsertQ, syncResponse, crashed, mpc,
                   queued, totals, badRows, applied, dbResources, dbEdges, closeErrors>>

\* ---- the caller after flush: await the workers, then query the totals ----
\* b.wg.Wait() returns when the counter is zero; a connection error ends the
\* request with 500.
Wait ==
    /\ ~crashed /\ mpc = "flushed"
    /\ wg = 0
    /\ mpc' = IF connError # NoError THEN "failed" ELSE "count"
    /\ UNCHANGED <<limiterVars, syncVars, clusterVars, connError, items, resourceInsertQ, edgeInsertQ, syncResponse, wg, workers,
                   crashed, queued, totals, badRows, applied, dbResources, dbEdges,
                   closeErrors>>

\* The cluster whose collector sends the request, its cluster-node row and an
\* edge that links it to another cluster.
SyncCluster == "cluster-a"
ClusterNodeUid == "cluster__cluster-a"
InterClusterEdge == "ic1"
\* The cluster column of a row: UpsertCluster stores the node row with cluster ''.
ClusterOf(uid) == IF uid = ClusterNodeUid THEN "" ELSE SyncCluster
EdgeType(e) == IF e = InterClusterEdge THEN "interCluster" ELSE "edgeType1"

\* COUNT(*) of resources WHERE cluster = {clusterId} and of edges WHERE
\* cluster = {clusterId} AND edgeType != 'interCluster'.
CountResources == Cardinality({u \in dbResources : ClusterOf(u) = SyncCluster})
CountEdges == Cardinality({e \in dbEdges : EdgeType(e) # "interCluster"})

\* The handler queries the cluster's row and edge counts.
CountTotals ==
    /\ ~crashed /\ mpc = "count"
    /\ totals' = [TotalResources |-> CountResources, TotalEdges |-> CountEdges]
    /\ mpc' = "done"
    /\ UNCHANGED <<limiterVars, syncVars, clusterVars, connError, items, resourceInsertQ, edgeInsertQ, syncResponse, wg, workers,
                   crashed, queued, badRows, applied, dbResources, dbEdges, closeErrors>>

NextBatch ==
    \/ \E item \in InputItems : Queue(item)
    \/ \E item \in InputItems : QueueRefused(item)
    \/ Flush
    \/ \E w \in DOMAIN workers, closeErr \in {NoError} \cup CloseErrorKinds :
          RoundTrip(w, closeErr)
    \/ \E w \in DOMAIN workers : CloseFailed(w)
    \/ \E w \in DOMAIN workers : BatchSucceeded(w)
    \/ \E w \in DOMAIN workers : SingleItemFailed(w)
    \/ \E w \in DOMAIN workers : AppendSyncError(w)
    \/ \E w \in DOMAIN workers : Bisect(w)
    \/ \E w \in DOMAIN workers : Return(w)
    \/ Wait
    \/ CountTotals

(***************************************************************************)
(* Sync handler: one POST /aggregator/clusters/{id}/sync, from decoding    *)
(* the body to writing the response. It drives the batch engine above.     *)
(***************************************************************************)
NoStatus == "none"
StatusOK == "200"
StatusBadRequest == "400"
StatusInternalServerError == "500"
ServerErrorMsg == "Server error while processing the request."
SyncResponseJson == "SyncResponse"

\* The lists of a SyncEvent in the order the handler enqueues them:
\* addResources, updateResources, deleteResources, addEdges, deleteEdges.
InputOrder ==
    <<CallerItem("addResource", "r1"), CallerItem("addResource", "r2"),
      CallerItem("updateResource", "u1"), CallerItem("deleteResource", "d1"),
      CallerItem("addEdge", "e1"), CallerItem("deleteEdge", "e2")>>
ItemList(S) == SelectSeq(InputOrder, LAMBDA it : it \in S)

\* Request bodies: one that is no JSON, and SyncEvents of at most MaxQueue items.
InvalidPayload == [valid |-> FALSE, clearAll |-> FALSE, items |-> <<>>]
EmptyPayload == [valid |-> TRUE, clearAll |-> FALSE, items |-> <<>>]
Payloads ==
    {InvalidPayload} \cup
    {[valid |-> TRUE, clearAll |-> ca, items |-> ItemList(S)] :
        ca \in BOOLEAN, S \in {T \in SUBSET InputItems : Cardinality(T) <= MaxQueue}}

\* The rows a payload declares: addResources and updateResources, and addEdges.
PayloadResources(p) ==
    {p.items[i].uid : i \in {j \in DOMAIN p.items :
                                p.items[j].action \in {"addResource", "updateResource"}}}
PayloadEdges(p) ==
    {p.items[i].uid : i \in {j \in DOMAIN p.items : p.items[j].action = "addEdge"}}

NoRows == [resources |-> {}, edges |-> {}]
\* The tables when the request arrives.
InitialResources == {"u1", "d1", ClusterNodeUid}
InitialEdges == {"e2", InterClusterEdge}
NoTotals == [TotalDeleted |-> 0, TotalEdgesDeleted |-> 0]

IdleSync ==
    /\ payload = EmptyPayload
    /\ toQueue = <<>>
    /\ existing = NoRows
    /\ reads = {}
    /\ dbCalled = {}
    /\ syncTotals = NoTotals
    /\ status = NoStatus
    /\ body = NoBody
    /\ round = 1
    /\ dbAfterFirst = NoRows

\* A request arrives: the tables hold rows of the cluster, its cluster-node row
\* and an inter-cluster edge; the batch of the request is new.
InitSync ==
    /\ payload \in Payloads
    /\ toQueue = <<>>
    /\ existing = NoRows
    /\ reads = {}
    /\ dbCalled = {}
    /\ syncTotals = NoTotals
    /\ status = NoStatus
    /\ body = NoBody
    /\ round = 1
    /\ dbAfterFirst = NoRows
    /\ connError = NoError
    /\ items = <<>>
    /\ resourceInsertQ = <<>>
    /\ edgeInsertQ = <<>>
    /\ syncResponse = EmptyResponse
    /\ wg = 0
    /\ workers = <<>>
    /\ crashed = FALSE
    /\ mpc = "decode"
    /\ queued = {}
    /\ totals = [TotalResources |-> 0, TotalEdges |-> 0]
    /\ badRows \in {b \in SUBSET RowIds : Cardinality(b) <= MaxBadRows}
    /\ applied = <<>>
    /\ dbResources = InitialResources
    /\ dbEdges = InitialEdges
    /\ closeErrors = 0

\* Step 4 starts with the first item, or with the flush when there is none.
StartEnqueue(its) == IF its = <<>> THEN "queue" ELSE "enqueue"

\* Step 1: a body that does not parse is answered 400 and nothing else is
\* done; step 3: clearAll starts the reconciliation.
DecodeNextIgnoringError(p) ==
    IF p.clearAll THEN "queryResources" ELSE StartEnqueue(p.items)
DecodeNext(p) ==
    IF ~p.valid THEN "badRequest"
    ELSE IF p.clearAll THEN "queryResources" ELSE StartEnqueue(p.items)

Decode ==
    /\ ~crashed /\ mpc = "decode"
    /\ mpc' = DecodeNext(payload)
    /\ toQueue' = payload.items
    /\ UNCHANGED <<limiterVars, clusterVars, payload, existing, reads, dbCalled, syncTotals,
                   status, body, round, dbAfterFirst,
                   connError, items, resourceInsertQ, edgeInsertQ, syncResponse, wg, workers,
                   crashed, queued, totals, badRows, applied, dbResources, dbEdges,
                   closeErrors>>

\* Steps 3a-3c in order: both read queries, then the two deletes, then step 4.
ResyncStepAfterInterleaved(step) ==
    CASE step = "queryResources" -> "deleteResources"
      [] step = "deleteResources" -> "queryEdges"
      [] step = "queryEdges" -> "deleteEdges"
      [] OTHER -> StartEnqueue(toQueue)
ResyncStepAfter(step) ==
    CASE step = "queryResources" -> "queryEdges"
      [] step = "queryEdges" -> "deleteResources"
      [] step = "deleteResources" -> "deleteEdges"
      [] OTHER -> StartEnqueue(toQueue)

\* SELECT uid, data FROM search.resources WHERE cluster = $1 AND uid != $2.
ExistingResources ==
    {u \in dbResources : ClusterOf(u) = SyncCluster /\ u # ClusterNodeUid}
\* SELECT sourceid, edgetype, destid FROM search.edges
\* WHERE edgetype != 'interCluster' AND cluster = $2.
ExistingEdges == {e \in dbEdges : EdgeType(e) # "interCluster"}

\* Step 3a.
QueryResources ==
    /\ ~crashed /\ mpc = "queryResources"
    /\ existing' = [existing EXCEPT !.resources = ExistingResources]
    /\ reads' = reads \cup {"resources"}
    /\ dbCalled' = dbCalled \cup {"Query"}
    /\ mpc' = ResyncStepAfter("queryResources")
    /\ UNCHANGED <<limiterVars, clusterVars, payload, toQueue, syncTotals, status, body, round,
                   dbAfterFirst,
                   connError, items, resourceInsertQ, edgeInsertQ, syncResponse, wg, workers,
                   crashed, queued, totals, badRows, applied, dbResources, dbEdges,
                   closeErrors>>

\* Step 3b.
QueryEdges ==
    /\ ~crashed /\ mpc = "queryEdges"
    /\ existing' = [existing EXCEPT !.edges = ExistingEdges]
    /\ reads' = reads \cup {"edges"}
    /\ dbCalled' = dbCalled \cup {"Query"}
    /\ mpc' = ResyncStepAfter("queryEdges")
    /\ UNCHANGED <<limiterVars, clusterVars, payload, toQueue, syncTotals, status, body, round,
                   dbAfterFirst,
                   connError, items, resourceInsertQ, edgeInsertQ, syncResponse, wg, workers,
                   crashed, queued, totals, badRows, applied, dbResources, dbEdges,
                   closeErrors>>

\* Step 3c: the rows the database has and the payload does not declare.
StaleResources == existing.resources \ PayloadResources(payload)
StaleEdges == existing.edges \ PayloadEdges(payload)

\* Step 3c for resources: one Exec deletes the stale rows; if it fails the
\* request is given up.
DeleteResources(fail) ==
    /\ ~crashed /\ mpc = "deleteResources"
    /\ dbCalled' = dbCalled \cup (IF fail THEN {"Exec", "ExecError"} ELSE {"Exec"})
    /\ IF fail
       THEN /\ mpc' = "failed"
            /\ UNCHANGED <<dbResources, syncTotals>>
       ELSE /\ dbResources' = dbResources \ StaleResources
            /\ syncTotals' = [syncTotals EXCEPT !.TotalDeleted = Cardinality(StaleResources)]
            /\ mpc' = ResyncStepAfter("deleteResources")
    /\ UNCHANGED <<limiterVars, clusterVars, payload, toQueue, existing, reads, status, body,
                   round, dbAfterFirst,
                   connError, items, resourceInsertQ, edgeInsertQ, syncResponse, wg, workers,
                   crashed, queued, totals, badRows, applied, dbEdges, closeErrors>>

\* Step 3c for edges.
DeleteEdges(fail) ==
    /\ ~crashed /\ mpc = "deleteEdges"
    /\ dbCalled' = dbCalled \cup (IF fail THEN {"Exec", "ExecError"} ELSE {"Exec"})
    /\ IF fail
       THEN /\ mpc' = "failed"
            /\ UNCHANGED <<dbEdges, syncTotals>>
       ELSE /\ dbEdges' = dbEdges \ StaleEdges
            /\ syncTotals' = [syncTotals EXCEPT !.TotalEdgesDeleted = Cardinality(StaleEdges)]
            /\ mpc' = ResyncStepAfter("deleteEdges")
    /\ UNCHANGED <<limiterVars, clusterVars, payload, toQueue, existing, reads, status, body,
                   round, dbAfterFirst,
                   connError, items, resourceInsertQ, edgeInsertQ, syncResponse, wg, workers,
                   crashed, queued, totals, badRows, applied, dbResources, closeErrors>>

\* Step 4: the handler passes the next item of the payload to Queue (lines 267-322).
SyncQueue ==
    /\ ~crashed /\ mpc = "enqueue"
    /\ toQueue # <<>>
    /\ ~ConnErrorSet(connError)
    /\ LET item == Head(toQueue)
           pending == QueueItems(item)
       IN  /\ queued' = queued \cup {item}
           /\ resourceInsertQ' = QueueResourceInsertQ(item)
           /\ edgeInsertQ' = QueueEdgeInsertQ(item)
           /\ IF Len(pending) >= BatchSize
              THEN /\ items' = <<>>
                   /\ wg' = wg + 1
                   /\ workers' = Dispatch(pending)
              ELSE /\ items' = pending
                   /\ UNCHANGED <<wg, workers>>
    /\ toQueue' = Tail(toQueue)
    /\ mpc' = StartEnqueue(Tail(toQueue))
    /\ UNCHANGED <<limiterVars, clusterVars, payload, existing, reads, dbCalled, syncTotals,
                   status, body, round, dbAfterFirst,
                   connError, syncResponse, crashed, totals, badRows, applied, dbResources,
                   dbEdges, closeErrors>>

\* Step 4 when Queue returns connError (lines 268-270): the request is given up.
SyncQueueRefused ==
    /\ ~crashed /\ mpc = "enqueue"
    /\ toQueue # <<>>
    /\ ConnErrorSet(connError)
    /\ mpc' = "failed"
    /\ UNCHANGED <<limiterVars, clusterVars, syncVars,
                   connError, items, resourceInsertQ, edgeInsertQ, syncResponse, wg, workers,
                   crashed, queued, totals, badRows, applied, dbResources, dbEdges,
                   closeErrors>>

\* Step 6 when the count query returns an error.
CountFailed ==
    /\ ~crashed /\ mpc = "count"
    /\ dbCalled' = dbCalled \cup {"CountError"}
    /\ mpc' = "failed"
    /\ UNCHANGED <<limiterVars, clusterVars, payload, toQueue, existing, reads, syncTotals,
                   status, body, round, dbAfterFirst,
                   connError, items, resourceInsertQ, edgeInsertQ, syncResponse, wg, workers,
                   crashed, queued, totals, badRows, applied, dbResources, dbEdges,
                   closeErrors>>

\* Step 8: the status and the body for the way the request ended.
ResponseStatus(outcome) ==
    CASE outcome = "badRequest" -> StatusBadRequest
      [] outcome = "failed" -> StatusInternalServerError
      [] OTHER -> StatusOK
ResponseBody(outcome) ==
    CASE outcome = "badRequest" -> NoBody
      [] outcome = "failed" -> ServerErrorMsg
      [] OTHER -> SyncResponseJson

Respond ==
    /\ ~crashed /\ mpc \in {"badRequest", "failed", "done"}
    /\ status' = ResponseStatus(mpc)
    /\ body' = ResponseBody(mpc)
    /\ dbAfterFirst' = IF round = 1 THEN [resources |-> dbResources, edges |-> dbEdges]
                       ELSE dbAfterFirst
    /\ mpc' = "responded"
    /\ UNCHANGED <<limiterVars, clusterVars, payload, toQueue, existing, reads, dbCalled,
                   syncTotals, round,
                   connError, items, resourceInsertQ, edgeInsertQ, syncResponse, wg, workers,
                   crashed, queued, totals, badRows, applied, dbResources, dbEdges,
                   closeErrors>>

\* The collector sends the same SyncEvent again after a 200: a new request
\* with a new batch, against the tables the first one left.
Resubmit ==
    /\ ~crashed /\ mpc = "responded"
    /\ round = 1 /\ status = StatusOK
    /\ round' = 2
    /\ mpc' = "decode"
    /\ toQueue' = <<>>
    /\ existing' = NoRows
    /\ reads' = {}
    /\ dbCalled' = {}
    /\ syncTotals' = NoTotals
    /\ status' = NoStatus
    /\ body' = NoBody
    /\ connError' = NoError
    /\ items' = <<>>
    /\ resourceInsertQ' = <<>>
    /\ edgeInsertQ' = <<>>
    /\ syncResponse' = EmptyResponse
    /\ wg' = 0
    /\ workers' = <<>>
    /\ queued' = {}
    /\ totals' = [TotalResources |-> 0, TotalEdges |-> 0]
    /\ applied' = <<>>
    /\ UNCHANGED <<limiterVars, clusterVars, payload, dbAfterFirst, crashed, badRows,
                   dbResources, dbEdges, closeErrors>>

NextSync ==
    \/ Decode
    \/ QueryResources
    \/ QueryEdges
    \/ \E fail \in BOOLEAN : DeleteResources(fail)
    \/ \E fail \in BOOLEAN : DeleteEdges(fail)
    \/ SyncQueue
    \/ SyncQueueRefused
    \/ Flush
    \/ \E w \in DOMAIN workers, closeErr \in {NoError} \cup CloseErrorKinds :
          RoundTrip(w, closeErr)
    \/ \E w \in DOMAIN workers : CloseFailed(w)
    \/ \E w \in DOMAIN workers : BatchSucceeded(w)
    \/ \E w \in DOMAIN workers : SingleItemFailed(w)
    \/ \E w \in DOMAIN workers : AppendSyncError(w)
    \/ \E w \in DOMAIN workers : Bisect(w)
    \/ \E w \in DOMAIN workers : Return(w)
    \/ Wait
    \/ CountTotals
    \/ CountFailed
    \/ Respond

NextResubmit ==
    \/ Decode
    \/ SyncQueue
    \/ Flush
    \/ \E w \in DOMAIN workers : RoundTrip(w, NoError)
    \/ \E w \in DOMAIN workers : BatchSucceeded(w)
    \/ \E w \in DOMAIN workers : SingleItemFailed(w)
    \/ \E w \in DOMAIN workers : Bisect(w)
    \/ \E w \in DOMAIN workers : Return(w)
    \/ Wait
    \/ CountTotals
    \/ Respond
    \/ Resubmit

(***************************************************************************)
(* Cluster lifecycle: the informer event handlers, UpsertCluster and       *)
(* DeleteClusterAndResources, over the cluster cache and the tables.       *)
(***************************************************************************)
\* Events the model delivers, and failures of the database or of the query
\* builder it injects.
MaxEvents == 3
MaxDbFailures == 3
\* cfg.MaxBackoffMS (MAX_BACKOFF_MS), set low enough for the retries to reach it.
MaxBackoffMS == 700

ManagedClusterName == "name-foo"
OtherClusterName == "name-bar"
SearchCollector == "search-collector"
ClusterUid(name) == "cluster__" \o name

\* Property values keep their Go type: reflect.DeepEqual tells int64 from float64.
Str(v) == [type |-> "string", val |-> v]
Int64(v) == [type |-> "int64", val |-> v]

\* json.Marshal of the properties: a JSON document has strings and numbers.
JsonMarshal(props) ==
    [k \in DOMAIN props |->
        IF props[k].type = "string" THEN props[k]
        ELSE [type |-> "number", val |-> props[k].val]]
\* rows.Scan into an interface{}: every JSON number becomes a float64.
JsonUnmarshal(data) ==
    [k \in DOMAIN data |->
        IF data[k].type = "number" THEN [type |-> "float64", val |-> data[k].val]
        ELSE data[k]]

\* The informer objects: ManagedCluster and ManagedClusterInfo of the cluster,
\* and ManagedClusterAddOn objects in the cluster's namespace.
NoEvent == [op |-> "none", kind |-> "", name |-> "", namespace |-> "", cpu |-> "", nodes |-> ""]
Events ==
    {[op |-> o, kind |-> "ManagedCluster", name |-> ManagedClusterName, namespace |-> "",
      cpu |-> c, nodes |-> ""] : o \in {"upsert", "delete"}, c \in {"4", "8"}}
    \cup
    {[op |-> o, kind |-> "ManagedClusterInfo", name |-> ManagedClusterName,
      namespace |-> ManagedClusterName, cpu |-> "", nodes |-> n] :
        o \in {"upsert", "delete"}, n \in {"1", "3"}}
    \cup
    {[op |-> o, kind |-> "ManagedClusterAddOn", name |-> n, namespace |-> ManagedClusterName,
      cpu |-> "", nodes |-> ""] :
        o \in {"upsert", "delete"}, n \in {SearchCollector, "work-manager"}}

\* transformManagedCluster without its call of addAdditionalProperties.
TransformManagedCluster(ev) ==
    [k \in {"kind", "name", "_clusterNamespace", "apigroup", "created", "cpu", "memory",
            "kubernetesVersion"} |->
        CASE k = "kind" -> Str("Cluster")
          [] k = "name" -> Str(ev.name)
          [] k = "_clusterNamespace" -> Str(ev.name)
          [] k = "apigroup" -> Str("internal.open-cluster-management.io")
          [] k = "created" -> Str("2021-01-01T00:00:00Z")
          [] k = "cpu" -> Int64(ev.cpu)
          [] k = "memory" -> Str("16Gi")
          [] OTHER -> Str("v1.20")]

\* transformManagedClusterInfo without its call of addAdditionalProperties.
TransformManagedClusterInfo(ev) ==
    [k \in {"consoleURL", "nodes", "kind", "name", "_clusterNamespace", "apigroup"} |->
        CASE k = "consoleURL" -> Str("https://console")
          [] k = "nodes" -> Int64(ev.nodes)
          [] k = "kind" -> Str("Cluster")
          [] k = "name" -> Str(ev.name)
          [] k = "_clusterNamespace" -> Str(ev.namespace)
          [] OTHER -> Str("internal.open-cluster-management.io")]

\* addAdditionalProperties: the cached keys the new properties lack are added.
AddAdditionalProperties(props, cache) ==
    LET clusterUid == ClusterUid(props["name"].val)
    IN  IF clusterUid \in DOMAIN cache
        THEN [k \in DOMAIN props \cup DOMAIN cache[clusterUid] |->
                 IF k \in DOMAIN props THEN props[k] ELSE cache[clusterUid][k]]
        ELSE props

\* clusterPropsUpToDate: same number of keys, and every new key cached with a
\* deeply equal value.
ClusterPropsUpToDateKeysOnly(cache, clusterUID, currProps) ==
    /\ clusterUID \in DOMAIN cache
    /\ Cardinality(DOMAIN cache[clusterUID]) = Cardinality(DOMAIN currProps)
    /\ \A key \in DOMAIN currProps : key \in DOMAIN cache[clusterUID]
ClusterPropsUpToDate(cache, clusterUID, currProps) ==
    /\ clusterUID \in DOMAIN cache
    /\ Cardinality(DOMAIN cache[clusterUID]) = Cardinality(DOMAIN currProps)
    /\ \A key \in DOMAIN currProps :
          /\ key \in DOMAIN cache[clusterUID]
          /\ currProps[key] = cache[clusterUID][key]

\* The cache operations.
NoClusters == [u \in {} |-> u]
UpdateClustersCache(cache, uid, data) ==
    [u \in DOMAIN cache \cup {uid} |-> IF u = uid THEN data ELSE cache[u]]
DeleteClustersCache(cache, uid) == [u \in DOMAIN cache \ {uid} |-> cache[u]]

\* Rows of search.resources and search.edges by their cluster column.
Row(c, id) == [cluster |-> c, id |-> id]
InitialClusterRows ==
    [resources |-> {Row(ManagedClusterName, "r1"), Row(ManagedClusterName, "r2"),
                    Row(OtherClusterName, "r3")},
     edges |-> {Row(ManagedClusterName, "e1"), Row(OtherClusterName, "e2")}]
RowsOf(c) ==
    [resources |-> {r \in clusterRows.resources : r.cluster = c},
     edges |-> {r \in clusterRows.edges : r.cluster = c}]

\* pgx.Tx: which DELETE statements ran in it.
NoTx == [open |-> FALSE, resources |-> FALSE, edges |-> FALSE, cluster |-> ""]
NoResource == [uid |-> "", props |-> NoClusters]
NoEntry == [cache |-> NoClusters, nodes |-> NoClusters, rows |-> [resources |-> {}, edges |-> {}]]

\* The two informers that call the handlers (clusterSync.go:61-62, 79-80),
\* with nothing to deliver.
Informers == {"ManagedCluster", "ManagedClusterInfo"}
NoHolder == ""
\* No access to the cache map is under way and its lock is free.
NoAccess == [at |-> "", mode |-> "none", locked |-> FALSE]
IdleCache ==
    /\ cacheLock = [writer |-> NoHolder, readers |-> {}]
    /\ accessing = [h \in Informers |-> NoAccess]

\* The group/versions stopAndStartInformer is started for (clusterSync.go:85-86),
\* and its locals when it starts (lines 91-92): stopper is nil.
GroupVersions ==
    {"cluster.open-cluster-management.io/v1", "internal.open-cluster-management.io/v1beta1"}
NilChan == "nil"
NewSupervisor ==
    [pc |-> "select", informerRunning |-> FALSE, stopper |-> NilChan, receiving |-> FALSE,
     err |-> "nil", runs |-> 0, starts |-> 0]
IdleSupervisor ==
    /\ ctxDone = FALSE
    /\ supervisor = [gv \in GroupVersions |-> NewSupervisor]

IdleInformers ==
    /\ IdleCache
    /\ IdleSupervisor
    /\ mux = NoHolder
    /\ hpc = [h \in Informers |-> "idle"]
    /\ hevent = [h \in Informers |-> NoEvent]
    /\ hresource = [h \in Informers |-> NoResource]
    /\ inbox = [h \in Informers |-> <<>>]
    /\ known = FALSE
    /\ lastWritten = NoClusters
    /\ changes = 0

IdleCluster ==
    /\ cpc = "idle"
    /\ event = NoEvent
    /\ resource = NoResource
    /\ existingClustersCache = NoClusters
    /\ clusterNodes = NoClusters
    /\ clusterRows = InitialClusterRows
    /\ tx = NoTx
    /\ leakedTxs = <<>>
    /\ retry = 0
    /\ dbFailures = 0
    /\ trail = <<>>
    /\ entry = NoEntry
    /\ handled = 0
    /\ slept = <<>>
    /\ IdleInformers

\* The process starts with an empty cache; the tables may hold the cluster's
\* node row from an earlier run.
InitCluster ==
    /\ cpc = "idle"
    /\ event = NoEvent
    /\ resource = NoResource
    /\ existingClustersCache = NoClusters
    /\ clusterNodes \in
          {NoClusters,
           [u \in {ClusterUid(ManagedClusterName)} |->
               JsonMarshal(TransformManagedCluster(
                   [NoEvent EXCEPT !.name = ManagedClusterName, !.cpu = "4"]))]}
    /\ clusterRows = InitialClusterRows
    /\ tx = NoTx
    /\ leakedTxs = <<>>
    /\ retry = 0
    /\ dbFailures = 0
    /\ trail = <<>>
    /\ entry = NoEntry
    /\ handled = 0
    /\ slept = <<>>
    /\ IdleInformers

\* An informer delivers the next event; the handlers run one at a time.
Deliver(ev) ==
    /\ cpc = "idle"
    /\ handled < MaxEvents
    /\ handled' = handled + 1
    /\ event' = ev
    /\ resource' = NoResource
    /\ trail' = <<>>
    /\ retry' = 0
    /\ slept' = <<>>
    /\ entry' = [cache |-> existingClustersCache, nodes |-> clusterNodes, rows |-> clusterRows]
    /\ cpc' = IF ev.op = "upsert" THEN "upsert" ELSE "delete"
    /\ UNCHANGED <<limiterVars, batchVars, syncVars, informerVars, existingClustersCache, clusterNodes,
                   clusterRows, tx, leakedTxs, dbFailures>>

\* processClusterDelete: which deleted objects remove a cluster's data, which
\* cluster, and whether its node row goes too.
DeletesClusterAnyKind(ev) == ev.kind # "ManagedClusterAddOn" \/ ev.name = SearchCollector
DeletesCluster(ev) ==
    \/ ev.kind = "ManagedCluster"
    \/ ev.kind = "ManagedClusterAddOn" /\ ev.name = SearchCollector
DeleteClusterNode(ev) == ev.kind = "ManagedCluster"
DeletedCluster(ev) == IF ev.kind = "ManagedCluster" THEN ev.name ELSE ev.namespace

ProcessClusterDelete ==
    /\ cpc = "delete"
    /\ cpc' = IF DeletesCluster(event) THEN "beginTx" ELSE "idle"
    /\ UNCHANGED <<limiterVars, batchVars, syncVars, informerVars, slept, event, resource, existingClustersCache,
                   clusterNodes, clusterRows, tx, leakedTxs, retry, dbFailures, trail, entry,
                   handled>>

\* deleteWithRetry, lines 43-48, when deleteFunction returned an error: sleep
\* waitMS milliseconds, count the retry and call deleteFunction again.
WaitMSUncapped(n) == n * 500
WaitMS(n) == IF n * 500 < MaxBackoffMS THEN n * 500 ELSE MaxBackoffMS
RetryDelete(calls) ==
    /\ dbFailures < MaxDbFailures
    /\ dbFailures' = dbFailures + 1
    /\ slept' = Append(slept, WaitMS(retry))
    /\ retry' = retry + 1
    /\ trail' = trail \o calls

\* DeleteClusterResourcesTxn, line 71.
BeginTx(fail) ==
    /\ cpc = "beginTx"
    /\ IF fail
       THEN /\ RetryDelete(<<"BeginTx:err">>)
            /\ UNCHANGED <<cpc, tx>>
       ELSE /\ tx' = [open |-> TRUE, resources |-> FALSE, edges |-> FALSE,
                      cluster |-> DeletedCluster(event)]
            /\ trail' = Append(trail, "BeginTx")
            /\ cpc' = "deleteResources"
            /\ UNCHANGED <<retry, dbFailures, slept>>
    /\ UNCHANGED <<limiterVars, batchVars, syncVars, informerVars, event, resource, existingClustersCache,
                   clusterNodes, clusterRows, leakedTxs, entry, handled>>

\* Lines 79-92 for the table resources, lines 95-108 for the table edges: the
\* query is built and executed in the transaction. When building fails the
\* function returns with the transaction as it is; when Exec fails it rolls back.
TxDelete(table, outcome) ==
    /\ cpc = (IF table = "resources" THEN "deleteResources" ELSE "deleteEdges")
    /\ CASE outcome = "buildErr" ->
              /\ RetryDelete(<<"goquDelete:err">>)
              /\ leakedTxs' = Append(leakedTxs, tx)
              /\ tx' = NoTx
              /\ cpc' = "beginTx"
         [] outcome = "execErr" ->
              /\ RetryDelete(<<"Exec:" \o table \o ":err", "Rollback">>)
              /\ tx' = NoTx
              /\ cpc' = "beginTx"
              /\ UNCHANGED leakedTxs
         [] OTHER ->
              /\ tx' = [tx EXCEPT ![table] = TRUE]
              /\ trail' = Append(trail, "Exec:" \o table)
              /\ cpc' = (IF table = "resources" THEN "deleteEdges" ELSE "commit")
              /\ UNCHANGED <<leakedTxs, retry, dbFailures, slept>>
    /\ UNCHANGED <<limiterVars, batchVars, syncVars, informerVars, event, resource, existingClustersCache,
                   clusterNodes, clusterRows, entry, handled>>

\* DeleteClusterAndResources, line 24: the node row is deleted only on request.
AfterCascadeAlwaysNode(deleteClusterNode) == "nodeDelete"
AfterCascade(deleteClusterNode) == IF deleteClusterNode THEN "nodeDelete" ELSE "idle"

\* The rows a committed transaction leaves.
RowsAfterCommit(t) ==
    [resources |-> {r \in clusterRows.resources : ~(t.resources /\ r.cluster = t.cluster)},
     edges |-> {r \in clusterRows.edges : ~(t.edges /\ r.cluster = t.cluster)}]

\* Lines 110-116, and the return to DeleteClusterAndResources.
Commit(fail) ==
    /\ cpc = "commit"
    /\ IF fail
       THEN /\ RetryDelete(<<"Commit:err", "Rollback">>)
            /\ cpc' = "beginTx"
            /\ UNCHANGED clusterRows
       ELSE /\ clusterRows' = RowsAfterCommit(tx)
            /\ trail' = Append(trail, "Commit")
            /\ retry' = 0
            /\ slept' = <<>>
            /\ cpc' = AfterCascade(DeleteClusterNode(event))
            /\ UNCHANGED dbFailures
    /\ tx' = NoTx
    /\ UNCHANGED <<limiterVars, batchVars, syncVars, informerVars, event, resource, existingClustersCache,
                   clusterNodes, leakedTxs, entry, handled>>

\* DeleteClusterAndResources, lines 25-28, with deleteWithRetry: the cache entry
\* is evicted once DeleteClusterTxn has returned nil.
AfterNodeDeleteAnyResult(err) == "evict"
AfterNodeDelete(err) == IF err = NoError THEN "evict" ELSE "nodeDelete"

\* DeleteClusterTxn: one DELETE on the pool, in no transaction.
DeleteClusterTxn(outcome) ==
    /\ cpc = "nodeDelete"
    /\ CASE outcome = "buildErr" ->
              /\ RetryDelete(<<"goquDelete:err">>)
              /\ cpc' = AfterNodeDelete(ExecError)
              /\ UNCHANGED clusterNodes
         [] outcome = "execErr" ->
              /\ RetryDelete(<<"Exec:node:err">>)
              /\ cpc' = AfterNodeDelete(ExecError)
              /\ UNCHANGED clusterNodes
         [] OTHER ->
              /\ clusterNodes' = DeleteClustersCache(clusterNodes, ClusterUid(DeletedCluster(event)))
              /\ trail' = Append(trail, "Exec:node")
              /\ cpc' = AfterNodeDelete(NoError)
              /\ UNCHANGED <<retry, dbFailures, slept>>
    /\ UNCHANGED <<limiterVars, batchVars, syncVars, informerVars, event, resource, existingClustersCache,
                   clusterRows, tx, leakedTxs, entry, handled>>

\* DeleteClusterAndResources, line 28.
EvictCluster ==
    /\ cpc = "evict"
    /\ existingClustersCache' =
          DeleteClustersCache(existingClustersCache, ClusterUid(DeletedCluster(event)))
    /\ trail' = Append(trail, "Evict")
    /\ cpc' = "idle"
    /\ UNCHANGED <<limiterVars, batchVars, syncVars, informerVars, slept, event, resource, clusterNodes, clusterRows,
                   tx, leakedTxs, retry, dbFailures, entry, handled>>

\* processClusterUpsert up to its call of UpsertCluster.
TransformOf(ev, cache) ==
    IF ev.kind = "ManagedCluster"
    THEN AddAdditionalProperties(TransformManagedCluster(ev), cache)
    ELSE AddAdditionalProperties(TransformManagedClusterInfo(ev), cache)

ProcessClusterUpsert ==
    /\ cpc = "upsert"
    /\ IF event.kind \in {"ManagedCluster", "ManagedClusterInfo"}
       THEN /\ resource' = [uid |-> ClusterUid(event.name),
                            props |-> TransformOf(event, existingClustersCache)]
            /\ cpc' = "upsertCluster"
       ELSE /\ cpc' = "idle"
            /\ UNCHANGED resource
    /\ UNCHANGED <<limiterVars, batchVars, syncVars, informerVars, slept, event, existingClustersCache, clusterNodes,
                   clusterRows, tx, leakedTxs, retry, dbFailures, trail, entry, handled>>

\* UpsertCluster, lines 145-155: when the statement cannot be built it returns.
BuildUpsert(fail) ==
    /\ cpc = "upsertCluster"
    /\ IF fail
       THEN /\ dbFailures < MaxDbFailures
            /\ dbFailures' = dbFailures + 1
            /\ trail' = Append(trail, "goquInsertUpdate:err")
            /\ cpc' = "idle"
       ELSE /\ cpc' = "clusterInDB"
            /\ UNCHANGED <<dbFailures, trail>>
    /\ UNCHANGED <<limiterVars, batchVars, syncVars, informerVars, slept, event, resource, existingClustersCache,
                   clusterNodes, clusterRows, tx, leakedTxs, retry, entry, handled>>

\* clusterInDB: a cluster that is not cached is loaded from the table.
ClusterInDB(queryFails) ==
    /\ cpc = "clusterInDB"
    /\ IF resource.uid \in DOMAIN existingClustersCache
       THEN /\ ~queryFails
            /\ UNCHANGED <<existingClustersCache, dbFailures, trail>>
       ELSE IF queryFails
            THEN /\ dbFailures < MaxDbFailures
                 /\ dbFailures' = dbFailures + 1
                 /\ trail' = Append(trail, "Query:err")
                 /\ UNCHANGED existingClustersCache
            ELSE /\ existingClustersCache' =
                       IF resource.uid \in DOMAIN clusterNodes
                       THEN UpdateClustersCache(existingClustersCache, resource.uid,
                                                JsonUnmarshal(clusterNodes[resource.uid]))
                       ELSE existingClustersCache
                 /\ trail' = Append(trail, "Query")
                 /\ UNCHANGED dbFailures
    /\ cpc' = "decide"
    /\ UNCHANGED <<limiterVars, batchVars, syncVars, informerVars, slept, event, resource, clusterNodes, clusterRows,
                   tx, leakedTxs, retry, entry, handled>>

\* UpsertCluster, lines 159-163: the cache after pool.Exec returned err.
CacheAfterExecAnyResult(cache, res, err) == UpdateClustersCache(cache, res.uid, res.props)
CacheAfterExec(cache, res, err) ==
    IF err = NoError THEN UpdateClustersCache(cache, res.uid, res.props) ELSE cache

\* UpsertCluster, lines 157-163: the INSERT ... ON CONFLICT, and the cache update
\* when it succeeded.
ExecUpsert(fail) ==
    /\ cpc = "decide"
    /\ \/ resource.uid \notin DOMAIN existingClustersCache
       \/ ~ClusterPropsUpToDate(existingClustersCache, resource.uid, resource.props)
    /\ IF fail
       THEN /\ dbFailures < MaxDbFailures
            /\ dbFailures' = dbFailures + 1
            /\ trail' = Append(trail, "Exec:upsert:err")
            /\ existingClustersCache' = CacheAfterExec(existingClustersCache, resource, ExecError)
            /\ UNCHANGED clusterNodes
       ELSE /\ clusterNodes' =
                   UpdateClustersCache(clusterNodes, resource.uid, JsonMarshal(resource.props))
            /\ existingClustersCache' = CacheAfterExec(existingClustersCache, resource, NoError)
            /\ trail' = Append(trail, "Exec:upsert")
            /\ UNCHANGED dbFailures
    /\ cpc' = "idle"
    /\ UNCHANGED <<limiterVars, batchVars, syncVars, informerVars, slept, event, resource, clusterRows, tx, leakedTxs,
                   retry, entry, handled>>

\* UpsertCluster, lines 164-167: the cluster is cached with the same properties.
SkipUpsert ==
    /\ cpc = "decide"
    /\ resource.uid \in DOMAIN existingClustersCache
    /\ ClusterPropsUpToDate(existingClustersCache, resource.uid, resource.props)
    /\ cpc' = "idle"
    /\ UNCHANGED <<limiterVars, batchVars, syncVars, informerVars, slept, event, resource, existingClustersCache,
                   clusterNodes, clusterRows, tx, leakedTxs, retry, dbFailures, trail, entry,
                   handled>>

DbOutcomes == {"ok", "buildErr", "execErr"}

NextCluster ==
    \/ \E ev \in Events : Deliver(ev)
    \/ ProcessClusterDelete
    \/ \E fail \in BOOLEAN : BeginTx(fail)
    \/ \E table \in {"resources", "edges"}, outcome \in DbOutcomes : TxDelete(table, outcome)
    \/ \E fail \in BOOLEAN : Commit(fail)
    \/ \E outcome \in DbOutcomes : DeleteClusterTxn(outcome)
    \/ EvictCluster
    \/ ProcessClusterUpsert
    \/ \E fail \in BOOLEAN : BuildUpsert(fail)
    \/ \E queryFails \in BOOLEAN : ClusterInDB(queryFails)
    \/ \E fail \in BOOLEAN : ExecUpsert(fail)
    \/ SkipUpsert

(***************************************************************************)
(* The earlier cluster delete (src/unnamed/part_000): DeleteCluster retries *)
(* DeleteClusterTxn, one transaction that deletes the cluster's resources, *)
(* its edges and its node row.                                             *)
(***************************************************************************)
\* The retries counted apart; the loop itself has no bound.
MaxRetry == 2

\* Line 29: waitMS grows with retry up to MaxBackoffMS and stays there, so the
\* retries beyond MaxRetry are counted as MaxRetry.
RetryAfter(n) == IF n < MaxRetry THEN n + 1 ELSE n

\* The cluster is known: its node row is stored and, once an upsert of this
\* process has written it, cached.
StoredCluster ==
    TransformManagedCluster([NoEvent EXCEPT !.name = ManagedClusterName, !.cpu = "4"])
InitDeleteCluster ==
    /\ InitLimiter /\ InitBatch /\ badRows = {} /\ IdleSync
    /\ cpc = "idle"
    /\ event = NoEvent
    /\ resource = NoResource
    /\ \E stored, cached \in BOOLEAN :
          /\ cached => stored
          /\ clusterNodes = IF stored
                            THEN [u \in {ClusterUid(ManagedClusterName)} |->
                                     JsonMarshal(StoredCluster)]
                            ELSE NoClusters
          /\ existingClustersCache =
                 IF cached
                 THEN [u \in {ClusterUid(ManagedClusterName)} |-> StoredCluster]
                 ELSE NoClusters
    /\ clusterRows = InitialClusterRows
    /\ tx = NoTx
    /\ leakedTxs = <<>>
    /\ retry = 0
    /\ dbFailures = 0
    /\ trail = <<>>
    /\ entry = NoEntry
    /\ handled = 0
    /\ slept = <<>>
    /\ IdleInformers

\* DeleteCluster(ctx, clusterName), lines 17-20.
DeleteCluster(name) ==
    /\ cpc = "idle"
    /\ handled < MaxEvents
    /\ handled' = handled + 1
    /\ event' = [NoEvent EXCEPT !.op = "delete", !.kind = "ManagedCluster", !.name = name]
    /\ trail' = <<>>
    /\ retry' = 0
    /\ entry' = [cache |-> existingClustersCache, nodes |-> clusterNodes, rows |-> clusterRows]
    /\ cpc' = "txBegin"
    /\ UNCHANGED <<limiterVars, batchVars, syncVars, informerVars, slept, resource, existingClustersCache,
                   clusterNodes, clusterRows, tx, leakedTxs, dbFailures>>

\* The three statements of the transaction and what follows each.
TxStatements == <<"resources", "edges", "node">>
TxPosition(i) == IF i > Len(TxStatements) THEN "txCommit" ELSE "tx:" \o TxStatements[i]

\* DeleteClusterTxn, lines 46-50: BeginTx.
DeleteClusterTxnBegin(fail) ==
    /\ cpc = "txBegin"
    /\ IF fail
       THEN /\ trail' = <<"BeginTx:err">>
            /\ cpc' = "backoff"
            /\ UNCHANGED tx
       ELSE /\ trail' = <<"BeginTx">>
            /\ tx' = [open |-> TRUE, resources |-> FALSE, edges |-> FALSE,
                      cluster |-> event.name]
            /\ cpc' = TxPosition(1)
    /\ UNCHANGED <<limiterVars, batchVars, syncVars, informerVars, slept, event, resource, existingClustersCache,
                   clusterNodes, clusterRows, leakedTxs, retry, dbFailures, entry, handled>>

\* Lines 52-55 and 58-61: checkErrorAndRollback; lines 64-68: the same, and
\* then tx.Commit on the transaction just rolled back, which commits nothing.
CallsAfterExecError(i) ==
    IF TxStatements[i] = "node" THEN <<"Rollback", "Commit:err">> ELSE <<"Rollback">>

\* DeleteClusterTxn, lines 52-68: the i-th tx.Exec.
DeleteClusterTxnExec(i, fail) ==
    /\ cpc = TxPosition(i)
    /\ IF fail
       THEN /\ trail' = trail \o <<"Exec:" \o TxStatements[i] \o ":err">>
                             \o CallsAfterExecError(i)
            /\ tx' = NoTx
            /\ cpc' = "backoff"
       ELSE /\ trail' = Append(trail, "Exec:" \o TxStatements[i])
            /\ tx' = IF TxStatements[i] = "node" THEN tx
                     ELSE [tx EXCEPT ![TxStatements[i]] = TRUE]
            /\ cpc' = TxPosition(i + 1)
    /\ UNCHANGED <<limiterVars, batchVars, syncVars, informerVars, slept, event, resource, existingClustersCache,
                   clusterNodes, clusterRows, leakedTxs, retry, dbFailures, entry, handled>>

\* DeleteClusterTxn, lines 70-75: Commit; the three deletes take effect at once.
DeleteClusterTxnCommit(fail) ==
    /\ cpc = "txCommit"
    /\ IF fail
       THEN /\ trail' = trail \o <<"Commit:err", "Rollback">>
            /\ cpc' = "backoff"
            /\ UNCHANGED <<clusterRows, clusterNodes>>
       ELSE /\ trail' = Append(trail, "Commit")
            /\ clusterRows' = RowsAfterCommit(tx)
            /\ clusterNodes' = DeleteClustersCache(clusterNodes, ClusterUid(tx.cluster))
            /\ cpc' = "deleted"
    /\ tx' = NoTx
    /\ UNCHANGED <<limiterVars, batchVars, syncVars, informerVars, slept, event, resource, existingClustersCache,
                   leakedTxs, retry, dbFailures, entry, handled>>

\* DeleteCluster, lines 27-32: the transaction failed: sleep, then call it again.
Backoff ==
    /\ cpc = "backoff"
    /\ retry' = RetryAfter(retry)
    /\ trail' = <<>>
    /\ cpc' = "txBegin"
    /\ UNCHANGED <<limiterVars, batchVars, syncVars, informerVars, slept, event, resource, existingClustersCache,
                   clusterNodes, clusterRows, tx, leakedTxs, dbFailures, entry, handled>>

\* DeleteCluster, lines 33-40: the transaction succeeded: leave the loop and
\* evict the cache entry.
DeleteClusterDone ==
    /\ cpc = "deleted"
    /\ existingClustersCache' = DeleteClustersCache(existingClustersCache, ClusterUid(event.name))
    /\ trail' = Append(trail, "Evict")
    /\ cpc' = "idle"
    /\ UNCHANGED <<limiterVars, batchVars, syncVars, informerVars, slept, event, resource, clusterNodes, clusterRows,
                   tx, leakedTxs, retry, dbFailures, entry, handled>>

NextDeleteCluster ==
    \/ \E name \in {ManagedClusterName, OtherClusterName} : DeleteCluster(name)
    \/ \E fail \in BOOLEAN : DeleteClusterTxnBegin(fail)
    \/ \E i \in DOMAIN TxStatements, fail \in BOOLEAN : DeleteClusterTxnExec(i, fail)
    \/ \E fail \in BOOLEAN : DeleteClusterTxnCommit(fail)
    \/ Backoff
    \/ DeleteClusterDone

(***************************************************************************)
(* The handlers of the two informers running concurrently. Each informer   *)
(* calls its handler for one event at a time, in the order of the events;  *)
(* the handlers of different informers run in different goroutines.        *)
(***************************************************************************)
MaxChanges == 3

\* What the handlers of the other sections use and these leave alone.
sequentialVars ==
    <<cpc, event, resource, tx, leakedTxs, retry, trail, entry, handled, slept>>

UpsertEvents == {ev \in Events : ev.op = "upsert" /\ ev.kind \in Informers}
DeleteEventOf(h) ==
    [NoEvent EXCEPT !.op = "delete", !.kind = h, !.name = ManagedClusterName,
                    !.namespace = IF h = "ManagedCluster" THEN "" ELSE ManagedClusterName]

\* The process starts with an empty cache. Either the cluster does not exist,
\* or it exists, its row is stored by an earlier run and the informer of
\* ManagedCluster delivers it as added.
InitInformers ==
    /\ InitLimiter /\ InitBatch /\ badRows = {} /\ IdleSync
    /\ cpc = "idle"
    /\ event = NoEvent
    /\ resource = NoResource
    /\ existingClustersCache = NoClusters
    /\ clusterRows = InitialClusterRows
    /\ tx = NoTx
    /\ leakedTxs = <<>>
    /\ retry = 0
    /\ dbFailures = 0
    /\ trail = <<>>
    /\ entry = NoEntry
    /\ handled = 0
    /\ slept = <<>>
    /\ IdleCache
    /\ IdleSupervisor
    /\ mux = NoHolder
    /\ hpc = [h \in Informers |-> "idle"]
    /\ hevent = [h \in Informers |-> NoEvent]
    /\ hresource = [h \in Informers |-> NoResource]
    /\ lastWritten = NoClusters
    /\ changes = 0
    /\ known \in BOOLEAN
    /\ clusterNodes = IF known
                      THEN [u \in {ClusterUid(ManagedClusterName)} |-> JsonMarshal(StoredCluster)]
                      ELSE NoClusters
    /\ inbox = [h \in Informers |->
                  IF known /\ h = "ManagedCluster"
                  THEN <<[NoEvent EXCEPT !.op = "upsert", !.kind = h,
                                         !.name = ManagedClusterName, !.cpu = "4"]>>
                  ELSE <<>>]

\* The control plane creates or updates an object; the informer of its kind
\* will call AddFunc or UpdateFunc (clusterSync.go:65-73). A ManagedClusterInfo
\* exists only for a ManagedCluster that exists.
ObjectChanged(ev) ==
    /\ changes < MaxChanges
    /\ ev.kind = "ManagedClusterInfo" => known
    /\ changes' = changes + 1
    /\ known' = TRUE
    /\ inbox' = [inbox EXCEPT ![ev.kind] = Append(@, ev)]
    /\ UNCHANGED <<limiterVars, batchVars, syncVars, sequentialVars, cacheVars, supervisorVars, existingClustersCache,
                   clusterNodes, clusterRows, dbFailures, mux, hpc, hevent, hresource,
                   lastWritten>>

\* The control plane deletes the ManagedCluster and its ManagedClusterInfo;
\* each informer will call DeleteFunc.
ClusterRemoved ==
    /\ changes < MaxChanges
    /\ known
    /\ changes' = changes + 1
    /\ known' = FALSE
    /\ inbox' = [h \in Informers |-> Append(inbox[h], DeleteEventOf(h))]
    /\ UNCHANGED <<limiterVars, batchVars, syncVars, sequentialVars, cacheVars, supervisorVars, existingClustersCache,
                   clusterNodes, clusterRows, dbFailures, mux, hpc, hevent, hresource,
                   lastWritten>>

\* An informer calls its handler for its next event once the handler of the
\* event before has returned.
HandleNext(h) ==
    /\ hpc[h] = "idle"
    /\ inbox[h] # <<>>
    /\ hevent' = [hevent EXCEPT ![h] = Head(inbox[h])]
    /\ inbox' = [inbox EXCEPT ![h] = Tail(@)]
    /\ hpc' = [hpc EXCEPT ![h] = IF Head(inbox[h]).op = "upsert" THEN "lock" ELSE "delete"]
    /\ UNCHANGED <<limiterVars, batchVars, syncVars, sequentialVars, cacheVars, supervisorVars, existingClustersCache,
                   clusterNodes, clusterRows, dbFailures, mux, hresource, known, lastWritten,
                   changes>>

\* processClusterUpsert, lines 127-128: mux.Lock() returns when mux is unlocked;
\* the deferred mux.Unlock() runs when the handler returns.
MuxFreeAlways(m) == TRUE
MuxFree(m) == m = NoHolder
MuxLock(h) ==
    /\ hpc[h] = "lock"
    /\ MuxFree(mux)
    /\ mux' = h
    /\ hpc' = [hpc EXCEPT ![h] = "transform"]
    /\ UNCHANGED <<limiterVars, batchVars, syncVars, sequentialVars, cacheVars, supervisorVars, existingClustersCache,
                   clusterNodes, clusterRows, dbFailures, hevent, hresource, inbox, known,
                   lastWritten, changes>>
UpsertReturned(h) ==
    /\ hpc' = [hpc EXCEPT ![h] = "idle"]
    /\ mux' = NoHolder

\* processClusterUpsert, lines 142-164, and UpsertCluster, lines 145-155: the
\* transform, which reads the cache to merge, and the statement; when the
\* statement cannot be built UpsertCluster returns.
UpsertTransform(h, fail) ==
    /\ hpc[h] = "transform"
    /\ hresource' = [hresource EXCEPT ![h] =
           [uid |-> ClusterUid(hevent[h].name),
            props |-> TransformOf(hevent[h], existingClustersCache)]]
    /\ IF fail
       THEN /\ dbFailures < MaxDbFailures
            /\ dbFailures' = dbFailures + 1
            /\ UpsertReturned(h)
       ELSE /\ hpc' = [hpc EXCEPT ![h] = "clusterInDB"]
            /\ UNCHANGED <<dbFailures, mux>>
    /\ UNCHANGED <<limiterVars, batchVars, syncVars, sequentialVars, cacheVars, supervisorVars, existingClustersCache,
                   clusterNodes, clusterRows, hevent, inbox, known, lastWritten, changes>>

\* clusterInDB, lines 171-198: a cluster that is not cached is loaded from the table.
UpsertClusterInDB(h, queryFails) ==
    /\ hpc[h] = "clusterInDB"
    /\ IF hresource[h].uid \in DOMAIN existingClustersCache
       THEN /\ ~queryFails
            /\ UNCHANGED <<existingClustersCache, dbFailures>>
       ELSE IF queryFails
            THEN /\ dbFailures < MaxDbFailures
                 /\ dbFailures' = dbFailures + 1
                 /\ UNCHANGED existingClustersCache
            ELSE /\ existingClustersCache' =
                       IF hresource[h].uid \in DOMAIN clusterNodes
                       THEN UpdateClustersCache(existingClustersCache, hresource[h].uid,
                                                JsonUnmarshal(clusterNodes[hresource[h].uid]))
                       ELSE existingClustersCache
                 /\ UNCHANGED dbFailures
    /\ hpc' = [hpc EXCEPT ![h] = "decide"]
    /\ UNCHANGED <<limiterVars, batchVars, syncVars, sequentialVars, cacheVars, supervisorVars, clusterNodes, clusterRows,
                   mux, hevent, hresource, inbox, known, lastWritten, changes>>

\* UpsertCluster, lines 157-161: the INSERT ... ON CONFLICT.
UpsertExec(h, fail) ==
    /\ hpc[h] = "decide"
    /\ \/ hresource[h].uid \notin DOMAIN existingClustersCache
       \/ ~ClusterPropsUpToDate(existingClustersCache, hresource[h].uid, hresource[h].props)
    /\ IF fail
       THEN /\ dbFailures < MaxDbFailures
            /\ dbFailures' = dbFailures + 1
            /\ UpsertReturned(h)
            /\ UNCHANGED <<clusterNodes, lastWritten>>
       ELSE /\ clusterNodes' = UpdateClustersCache(clusterNodes, hresource[h].uid,
                                                  JsonMarshal(hresource[h].props))
            /\ lastWritten' = hresource[h].props
            /\ hpc' = [hpc EXCEPT ![h] = "updateCache"]
            /\ UNCHANGED <<dbFailures, mux>>
    /\ UNCHANGED <<limiterVars, batchVars, syncVars, sequentialVars, cacheVars, supervisorVars, existingClustersCache,
                   clusterRows, hevent, hresource, inbox, known, changes>>

\* UpsertCluster, line 162: the cache entry is set to the written properties.
UpsertUpdateCache(h) ==
    /\ hpc[h] = "updateCache"
    /\ existingClustersCache' =
           UpdateClustersCache(existingClustersCache, hresource[h].uid, hresource[h].props)
    /\ UpsertReturned(h)
    /\ UNCHANGED <<limiterVars, batchVars, syncVars, sequentialVars, cacheVars, supervisorVars, clusterNodes, clusterRows,
                   dbFailures, hevent, hresource, inbox, known, lastWritten, changes>>

\* UpsertCluster, lines 164-167: the cluster is cached with the same properties.
UpsertSkip(h) ==
    /\ hpc[h] = "decide"
    /\ hresource[h].uid \in DOMAIN existingClustersCache
    /\ ClusterPropsUpToDate(existingClustersCache, hresource[h].uid, hresource[h].props)
    /\ UpsertReturned(h)
    /\ UNCHANGED <<limiterVars, batchVars, syncVars, sequentialVars, cacheVars, supervisorVars, existingClustersCache,
                   clusterNodes, clusterRows, dbFailures, hevent, hresource, inbox, known,
                   lastWritten, changes>>

\* processClusterDelete: it takes no lock.
DeleteStart(h) ==
    /\ hpc[h] = "delete"
    /\ hpc' = [hpc EXCEPT ![h] = IF DeletesCluster(hevent[h]) THEN "cascade" ELSE "idle"]
    /\ UNCHANGED <<limiterVars, batchVars, syncVars, sequentialVars, cacheVars, supervisorVars, existingClustersCache,
                   clusterNodes, clusterRows, dbFailures, mux, hevent, hresource, inbox, known,
                   lastWritten, changes>>

\* DeleteClusterAndResources, line 20: deleteWithRetry has returned, the
\* transaction that deletes the cluster's resources and edges is committed.
DeleteCascade(h) ==
    /\ hpc[h] = "cascade"
    /\ clusterRows' =
           [resources |-> {r \in clusterRows.resources : r.cluster # DeletedCluster(hevent[h])},
            edges |-> {r \in clusterRows.edges : r.cluster # DeletedCluster(hevent[h])}]
    /\ hpc' = [hpc EXCEPT ![h] = AfterCascade(DeleteClusterNode(hevent[h]))]
    /\ UNCHANGED <<limiterVars, batchVars, syncVars, sequentialVars, cacheVars, supervisorVars, existingClustersCache,
                   clusterNodes, dbFailures, mux, hevent, hresource, inbox, known, lastWritten,
                   changes>>

\* DeleteClusterAndResources, line 25: DeleteClusterTxn deletes the node row;
\* deleteWithRetry calls it again when it fails.
DeleteNode(h, fail) ==
    /\ hpc[h] = "nodeDelete"
    /\ IF fail
       THEN /\ dbFailures < MaxDbFailures
            /\ dbFailures' = dbFailures + 1
            /\ hpc' = [hpc EXCEPT ![h] = AfterNodeDelete(ExecError)]
            /\ UNCHANGED clusterNodes
       ELSE /\ clusterNodes' =
                   DeleteClustersCache(clusterNodes, ClusterUid(DeletedCluster(hevent[h])))
            /\ hpc' = [hpc EXCEPT ![h] = AfterNodeDelete(NoError)]
            /\ UNCHANGED dbFailures
    /\ UNCHANGED <<limiterVars, batchVars, syncVars, sequentialVars, cacheVars, supervisorVars, existingClustersCache,
                   clusterRows, mux, hevent, hresource, inbox, known, lastWritten, changes>>

\* DeleteClusterAndResources, line 28: DeleteClustersCache.
DeleteEvict(h) ==
    /\ hpc[h] = "evict"
    /\ existingClustersCache' =
           DeleteClustersCache(existingClustersCache, ClusterUid(DeletedCluster(hevent[h])))
    /\ hpc' = [hpc EXCEPT ![h] = "idle"]
    /\ UNCHANGED <<limiterVars, batchVars, syncVars, sequentialVars, cacheVars, supervisorVars, clusterNodes, clusterRows,
                   dbFailures, mux, hevent, hresource, inbox, known, lastWritten, changes>>

NextUpserts ==
    \/ \E ev \in UpsertEvents : ObjectChanged(ev)
    \/ \E h \in Informers : HandleNext(h)
    \/ \E h \in Informers : MuxLock(h)
    \/ \E h \in Informers, fail \in BOOLEAN : UpsertTransform(h, fail)
    \/ \E h \in Informers, queryFails \in BOOLEAN : UpsertClusterInDB(h, queryFails)
    \/ \E h \in Informers, fail \in BOOLEAN : UpsertExec(h, fail)
    \/ \E h \in Informers : UpsertUpdateCache(h)
    \/ \E h \in Informers : UpsertSkip(h)

NextInformers ==
    \/ \E ev \in UpsertEvents : ObjectChanged(ev)
    \/ ClusterRemoved
    \/ \E h \in Informers : HandleNext(h)
    \/ \E h \in Informers : MuxLock(h)
    \/ \E h \in Informers, fail \in BOOLEAN : UpsertTransform(h, fail)
    \/ \E h \in Informers, queryFails \in BOOLEAN : UpsertClusterInDB(h, queryFails)
    \/ \E h \in Informers, fail \in BOOLEAN : UpsertExec(h, fail)
    \/ \E h \in Informers : UpsertUpdateCache(h)
    \/ \E h \in Informers : UpsertSkip(h)
    \/ \E h \in Informers : DeleteStart(h)
    \/ \E h \in Informers : DeleteCascade(h)
    \/ \E h \in Informers, fail \in BOOLEAN : DeleteNode(h, fail)
    \/ \E h \in Informers : DeleteEvict(h)

(***************************************************************************)
(* The accesses to the cluster cache. ReadClustersCache, UpdateClustersCache *)
(* and DeleteClustersCache take the read-write lock of the cache (4.5:     *)
(* reads may be concurrent, writes hold an exclusive lock);                *)
(* addAdditionalProperties indexes database.ExistingClustersMap itself     *)
(* (clusterSync.go:182-184). Each access is a step that begins it, the     *)
(* handler's step that makes it, and a step that ends it.                  *)
(***************************************************************************)
\* The accessor a handler calls at its position: the map itself while it
\* transforms; in clusterInDB ReadClustersCache and, for a cluster that is not
\* cached, UpdateClustersCache; ReadClustersCache in clusterPropsUpToDate;
\* UpdateClustersCache after the INSERT; DeleteClustersCache after the delete.
AccessorAt(h) ==
    CASE hpc[h] = "transform" -> "ExistingClustersMap"
      [] hpc[h] = "clusterInDB" ->
            IF hresource[h].uid \in DOMAIN existingClustersCache
            THEN "ReadClustersCache" ELSE "UpdateClustersCache"
      [] hpc[h] = "decide" -> "ReadClustersCache"
      [] hpc[h] = "updateCache" -> "UpdateClustersCache"
      [] hpc[h] = "evict" -> "DeleteClustersCache"
      [] OTHER -> "none"
Access(h, m, l) == [at |-> hpc[h], mode |-> m, locked |-> l]
NotAccessing(h) == accessing[h] = NoAccess
MakesAccess(h) == accessing[h] # NoAccess /\ accessing[h].at = hpc[h]

\* addAdditionalProperties, lines 182-184: the map is read with no lock taken.
ReadMap(h) ==
    /\ NotAccessing(h)
    /\ AccessorAt(h) = "ExistingClustersMap"
    /\ accessing' = [accessing EXCEPT ![h] = Access(h, "read", FALSE)]
    /\ UNCHANGED <<limiterVars, batchVars, syncVars, sequentialVars, supervisorVars,
                   existingClustersCache, clusterNodes, clusterRows, dbFailures, mux, hpc,
                   hevent, hresource, inbox, known, lastWritten, changes, cacheLock>>

\* ReadClustersCache: RLock.
CacheRLock(h) ==
    /\ NotAccessing(h)
    /\ AccessorAt(h) = "ReadClustersCache"
    /\ cacheLock.writer = NoHolder
    /\ cacheLock' = [cacheLock EXCEPT !.readers = @ \cup {h}]
    /\ accessing' = [accessing EXCEPT ![h] = Access(h, "read", TRUE)]
    /\ UNCHANGED <<limiterVars, batchVars, syncVars, sequentialVars, supervisorVars,
                   existingClustersCache, clusterNodes, clusterRows, dbFailures, mux, hpc,
                   hevent, hresource, inbox, known, lastWritten, changes>>

\* UpdateClustersCache and DeleteClustersCache: Lock.
CacheLock(h) ==
    /\ NotAccessing(h)
    /\ AccessorAt(h) \in {"UpdateClustersCache", "DeleteClustersCache"}
    /\ cacheLock.writer = NoHolder
    /\ cacheLock.readers = {}
    /\ cacheLock' = [cacheLock EXCEPT !.writer = h]
    /\ accessing' = [accessing EXCEPT ![h] = Access(h, "write", TRUE)]
    /\ UNCHANGED <<limiterVars, batchVars, syncVars, sequentialVars, supervisorVars,
                   existingClustersCache, clusterNodes, clusterRows, dbFailures, mux, hpc,
                   hevent, hresource, inbox, known, lastWritten, changes>>

\* The access is over; RUnlock or Unlock when a lock was taken.
CacheUnlock(h) ==
    /\ accessing[h] # NoAccess
    /\ accessing[h].at # hpc[h]
    /\ cacheLock' = IF ~accessing[h].locked THEN cacheLock
                    ELSE IF accessing[h].mode = "write"
                         THEN [cacheLock EXCEPT !.writer = NoHolder]
                         ELSE [cacheLock EXCEPT !.readers = @ \ {h}]
    /\ accessing' = [accessing EXCEPT ![h] = NoAccess]
    /\ UNCHANGED <<limiterVars, batchVars, syncVars, sequentialVars, supervisorVars,
                   existingClustersCache, clusterNodes, clusterRows, dbFailures, mux, hpc,
                   hevent, hresource, inbox, known, lastWritten, changes>>

\* The handlers' steps: the ones that use the cache run inside their access,
\* the others outside any.
HandleNextOutside(h) == NotAccessing(h) /\ HandleNext(h)
MuxLockOutside(h) == NotAccessing(h) /\ MuxLock(h)
DeleteStartOutside(h) == NotAccessing(h) /\ DeleteStart(h)
DeleteCascadeOutside(h) == NotAccessing(h) /\ DeleteCascade(h)
DeleteNodeOutside(h, fail) == NotAccessing(h) /\ DeleteNode(h, fail)
MergeInAccess(h, fail) == MakesAccess(h) /\ UpsertTransform(h, fail)
ClusterInDBInAccess(h, queryFails) == MakesAccess(h) /\ UpsertClusterInDB(h, queryFails)
ExecInAccess(h, fail) == MakesAccess(h) /\ UpsertExec(h, fail)
SkipInAccess(h) == MakesAccess(h) /\ UpsertSkip(h)
UpdateCacheInAccess(h) == MakesAccess(h) /\ UpsertUpdateCache(h)
EvictInAccess(h) == MakesAccess(h) /\ DeleteEvict(h)

NextCacheAccess ==
    \/ \E ev \in UpsertEvents : ObjectChanged(ev)
    \/ ClusterRemoved
    \/ \E h \in Informers : ReadMap(h)
    \/ \E h \in Informers : CacheRLock(h)
    \/ \E h \in Informers : CacheLock(h)
    \/ \E h \in Informers : CacheUnlock(h)
    \/ \E h \in Informers : HandleNextOutside(h)
    \/ \E h \in Informers : MuxLockOutside(h)
    \/ \E h \in Informers, fail \in BOOLEAN : MergeInAccess(h, fail)
    \/ \E h \in Informers, queryFails \in BOOLEAN : ClusterInDBInAccess(h, queryFails)
    \/ \E h \in Informers, fail \in BOOLEAN : ExecInAccess(h, fail)
    \/ \E h \in Informers : UpdateCacheInAccess(h)
    \/ \E h \in Informers : SkipInAccess(h)
    \/ \E h \in Informers : DeleteStartOutside(h)
    \/ \E h \in Informers : DeleteCascadeOutside(h)
    \/ \E h \in Informers, fail \in BOOLEAN : DeleteNodeOutside(h, fail)
    \/ \E h \in Informers : EvictInAccess(h)

(***************************************************************************)
(* The informer supervisors: stopAndStartInformer (clusterSync.go:90-120), *)
(* one goroutine per group/version. informer.Run(stopper) runs until it    *)
(* receives on stopper; stopper is unbuffered and local to the supervisor. *)
(***************************************************************************)
\* Informer runs the model lets one supervisor start.
MaxStarts == 2

\* What ServerResourcesForGroupVersion returns (line 100).
ResourceNotFound == "the server could not find the requested resource"
ProbeErrors == {NoError, ResourceNotFound, "connection refused"}
\* isClusterMissing, lines 174-179.
IsClusterMissingAnyError(err) == err # NoError
IsClusterMissing(err) ==
    err # NoError /\ err = "the server could not find the requested resource"

\* What the handlers and the cache hold; the supervisors leave it alone.
handlerVars ==
    <<sequentialVars, existingClustersCache, clusterNodes, clusterRows, dbFailures, mux, hpc,
      hevent, hresource, inbox, known, lastWritten, changes, cacheVars>>

\* A send on stopper completes when the informer.Run started with it receives;
\* a send on a nil channel never completes.
CanSend(sv) == sv.stopper # NilChan /\ sv.receiving

\* The context is cancelled.
Cancel ==
    /\ ~ctxDone
    /\ ctxDone' = TRUE
    /\ UNCHANGED <<limiterVars, batchVars, syncVars, handlerVars, supervisor>>

\* Lines 95-96: the select takes the case of ctx.Done().
CtxDone(gv) ==
    /\ supervisor[gv].pc = "select"
    /\ ctxDone
    /\ supervisor' = [supervisor EXCEPT ![gv].pc = "stopOnDone"]
    /\ UNCHANGED <<limiterVars, batchVars, syncVars, handlerVars, ctxDone>>

\* Lines 98-99: the stop signal is sent and the supervisor returns.
StopOnDone(gv) ==
    /\ supervisor[gv].pc = "stopOnDone"
    /\ CanSend(supervisor[gv])
    /\ supervisor' = [supervisor EXCEPT ![gv].pc = "returned",
                                        ![gv].receiving = FALSE,
                                        ![gv].runs = @ - 1]
    /\ UNCHANGED <<limiterVars, batchVars, syncVars, handlerVars, ctxDone>>

\* Lines 100-116, the default case: the probe and what follows from its result.
\* The informer is started in this step (lines 112-114); the stop signal of
\* line 108 is a step of its own.
Probe(gv, err) ==
    LET sv == supervisor[gv]
    IN  /\ sv.pc = "select"
        /\ ~ctxDone
        /\ IF err # NoError /\ ~IsClusterMissing(err)
           THEN supervisor' = [supervisor EXCEPT ![gv].pc = "sleep", ![gv].err = err]
           ELSE IF sv.informerRunning /\ IsClusterMissing(err)
           THEN supervisor' = [supervisor EXCEPT ![gv].pc = "stopOnMissing", ![gv].err = err]
           ELSE IF ~sv.informerRunning /\ ~IsClusterMissing(err)
           THEN /\ sv.starts < MaxStarts
                /\ supervisor' = [supervisor EXCEPT ![gv].pc = "sleep",
                                                    ![gv].err = err,
                                                    ![gv].stopper = "chan",
                                                    ![gv].receiving = TRUE,
                                                    ![gv].informerRunning = TRUE,
                                                    ![gv].runs = @ + 1,
                                                    ![gv].starts = @ + 1]
           ELSE supervisor' = [supervisor EXCEPT ![gv].pc = "sleep", ![gv].err = err]
        /\ UNCHANGED <<limiterVars, batchVars, syncVars, handlerVars, ctxDone>>

\* Lines 108-109: the informer receives the stop signal.
StopOnMissing(gv) ==
    /\ supervisor[gv].pc = "stopOnMissing"
    /\ CanSend(supervisor[gv])
    /\ supervisor' = [supervisor EXCEPT ![gv].pc = "sleep",
                                        ![gv].receiving = FALSE,
                                        ![gv].runs = @ - 1,
                                        ![gv].informerRunning = FALSE]
    /\ UNCHANGED <<limiterVars, batchVars, syncVars, handlerVars, ctxDone>>

\* Line 117: the sleep of RediscoverRateMS is over.
Rediscover(gv) ==
    /\ supervisor[gv].pc = "sleep"
    /\ supervisor' = [supervisor EXCEPT ![gv].pc = "select"]
    /\ UNCHANGED <<limiterVars, batchVars, syncVars, handlerVars, ctxDone>>

SupervisorStep(gv) ==
    \/ CtxDone(gv)
    \/ StopOnDone(gv)
    \/ \E err \in ProbeErrors : Probe(gv, err)
    \/ StopOnMissing(gv)
    \/ Rediscover(gv)

NextSupervisor ==
    \/ Cancel
    \/ \E gv \in GroupVersions : CtxDone(gv)
    \/ \E gv \in GroupVersions : StopOnDone(gv)
    \/ \E gv \in GroupVersions, err \in ProbeErrors : Probe(gv, err)
    \/ \E gv \in GroupVersions : StopOnMissing(gv)
    \/ \E gv \in GroupVersions : Rediscover(gv)

(***************************************************************************)
(* Specifications.                                                         *)
(***************************************************************************)
Init == InitLimiter /\ InitBatch /\ IdleSync /\ IdleCluster

\* The request limiter alone; the batch engine stays idle.
InitIdleBatch == Init /\ badRows = {}
SpecLimiter == InitIdleBatch /\ [][NextLimiter]_vars

\* One sync request through the batch engine; no other request arrives.
SpecBatch == Init /\ [][NextBatch]_vars

\* One sync request from its body to its response.
InitSyncRequest == InitLimiter /\ InitSync /\ IdleCluster
SpecSync == InitSyncRequest /\ [][NextSync]_vars

\* A SyncEvent without clearAll submitted twice; the database accepts every row
\* and no round trip is interrupted.
InitResubmit == InitSyncRequest /\ payload.valid /\ ~payload.clearAll /\ badRows = {}
SpecResubmit == InitResubmit /\ [][NextResubmit]_vars

\* The informer events of one cluster, handled one after the other.
InitClusterEvents == InitLimiter /\ InitBatch /\ badRows = {} /\ IdleSync /\ InitCluster
SpecCluster == InitClusterEvents /\ [][NextCluster]_vars

\* One batch whose workers report several rejected rows of one kind: two
\* deletes the database may reject and an update, over a healthy connection.
MaxRaceBadRows == 2
RaceItems ==
    {CallerItem("deleteResource", "d1"), CallerItem("deleteResource", "d2"),
     CallerItem("updateResource", "u1")}
InitRace ==
    /\ InitLimiter /\ IdleSync /\ IdleCluster
    /\ connError = NoError
    /\ items = <<>>
    /\ resourceInsertQ = <<>>
    /\ edgeInsertQ = <<>>
    /\ syncResponse = EmptyResponse
    /\ wg = 0
    /\ workers = <<>>
    /\ crashed = FALSE
    /\ mpc = "queue"
    /\ queued = {}
    /\ totals = [TotalResources |-> 0, TotalEdges |-> 0]
    /\ badRows \in {b \in SUBSET {i.uid : i \in RaceItems} : Cardinality(b) <= MaxRaceBadRows}
    /\ applied = <<>>
    /\ dbResources = {i.uid : i \in RaceItems}
    /\ dbEdges = {}
    /\ closeErrors = 0
NextRace ==
    \/ \E item \in RaceItems : Queue(item)
    \/ Flush
    \/ \E w \in DOMAIN workers : RoundTrip(w, NoError)
    \/ \E w \in DOMAIN workers : BatchSucceeded(w)
    \/ \E w \in DOMAIN workers : SingleItemFailed(w)
    \/ \E w \in DOMAIN workers : AppendSyncError(w)
    \/ \E w \in DOMAIN workers : Bisect(w)
    \/ \E w \in DOMAIN workers : Return(w)
    \/ Wait
    \/ CountTotals
SpecRace == InitRace /\ [][NextRace]_vars

\* The earlier DeleteCluster, its handlers running one at a time; the goroutine
\* that runs a handler is always scheduled again.
SpecDeleteCluster == InitDeleteCluster /\ [][NextDeleteCluster]_vars
FairDeleteCluster == SpecDeleteCluster /\ WF_vars(NextDeleteCluster)

\* Upsert events of one cluster from both informers, handled concurrently.
SpecUpserts == InitInformers /\ [][NextUpserts]_vars
\* The same with deletions of the cluster.
SpecInformers == InitInformers /\ [][NextInformers]_vars

\* The same handlers with their accesses to the cache map and its lock.
SpecCacheAccess == InitInformers /\ [][NextCacheAccess]_vars

\* The two informer supervisors and the cancellation of their context. Each
\* supervisor is a goroutine of its own and takes its steps.
SpecSupervisor == InitIdleBatch /\ [][NextSupervisor]_vars
FairSupervisor == SpecSupervisor /\ \A gv \in GroupVersions : WF_vars(SupervisorStep(gv))

\* Every goroutine dispatched for the request has returned.
AllWorkersReturned == \A w \in DOMAIN workers : ~Live(w)

(***************************************************************************)
(* Claims about the request limiter, checked under SpecLimiter.            *)
(***************************************************************************)

\* C1: at most one sync handler runs for a given clusterName at any time.
C1_OneHandlerPerCluster ==
    \A r1, r2 \in Reqs :
        (r1 # r2 /\ Running(r1) /\ Running(r2)) => clusterName[r1] # clusterName[r2]

\* C2: the number of requests in flight whose clusterName is not
\* "local-cluster" never exceeds RequestLimit.
C2_InFlightWithinLimit ==
    Cardinality({r \in Reqs : InFlight(r) /\ clusterName[r] # LocalCluster}) <= RequestLimit

\* C3: when an admitted request exits (handler returned, answered an error or
\* panicked) the tracker holds no entry for its clusterName; every entry of the
\* tracker belongs to a request still in flight, so the map is empty once all
\* admitted requests have exited and a later request of that cluster is not
\* rejected as a duplicate.
C3_EntryRemovedAtExit ==
    /\ [][\A r \in Reqs : (rpc[r] = "deferred" /\ rpc'[r] = "done")
                              => clusterName[r] \notin requestTracker']_vars
    /\ [](\A c \in requestTracker : \E r \in Reqs : InFlight(r) /\ clusterName[r] = c)
    /\ []((\A r \in Reqs : ~InFlight(r)) => requestTracker = {})

\* C3 witness: a request whose handler panicked has exited, the map is empty,
\* and a later request of the same cluster has been admitted.
C3_Witness ==
    \E r1, r2 \in Reqs :
        /\ rpc[r1] = "done" /\ handlerOutcome[r1] = "panic"
        /\ clusterName[r2] = clusterName[r1]
        /\ Running(r2) /\ requestCount[r2] = 0 /\ ~foundClusterProcessing[r2]

\* C4: a "local-cluster" request is never rejected because of the global cap:
\* if no other local-cluster request is in flight when it reads the tracker, the
\* lookup finds nothing, and a local-cluster request whose lookup found nothing
\* is admitted whatever the size of the tracker.
C4_LocalClusterExempt ==
    /\ [][\A r \in Reqs :
            (/\ rpc[r] = "read" /\ rpc'[r] = "decide" /\ clusterName[r] = LocalCluster
             /\ ~\E q \in Reqs : q # r /\ InFlight(q) /\ clusterName[q] = LocalCluster)
            => ~foundClusterProcessing'[r]]_vars
    /\ [][\A r \in Reqs :
            (/\ rpc[r] = "decide" /\ rpc'[r] # "decide" /\ clusterName[r] = LocalCluster
             /\ ~foundClusterProcessing[r])
            => (Running(r))' /\ clusterName[r] \in requestTracker']_vars
    /\ [](\A r \in Reqs : clusterName[r] = LocalCluster => responseBody[r] # TooManyRequestsMsg)

\* C4 witness: a local-cluster request was admitted although it had read a
\* tracker size of at least RequestLimit.
C4_Witness ==
    \E r \in Reqs :
        /\ clusterName[r] = LocalCluster /\ Running(r)
        /\ requestCount[r] >= RequestLimit

\* C5: a request rejected by the limiter does no work: the step that rejects it
\* leaves the tracker map unchanged and issues no database operation, the
\* rejected request never runs the wrapped handler, and it takes no further step.
C5_RejectionDoesNoWork ==
    /\ [][\A r \in Reqs : (~Rejected(r) /\ (Rejected(r))')
               => /\ requestTracker' = requestTracker
                  /\ served' = served
                  /\ dbOps' = dbOps
                  /\ responseBody'[r] \in {PreviousRequestMsg, TooManyRequestsMsg}]_vars
    /\ [][\A r \in Reqs : Rejected(r) => (Rejected(r))' /\ dbOps'[r] = dbOps[r]]_vars
    /\ [](\A r \in Reqs : Rejected(r) => ~served[r] /\ dbOps[r] = 0)

\* C5 witness: a request was rejected as a duplicate while the request of its
\* cluster that is in flight still has its entry in the map.
C5_Witness ==
    \E r, q \in Reqs :
        /\ Rejected(r) /\ responseBody[r] = PreviousRequestMsg
        /\ q # r /\ Running(q) /\ clusterName[q] = clusterName[r]
        /\ clusterName[q] \in requestTracker

(***************************************************************************)
(* Claims about the batch engine, checked under SpecBatch.                 *)
(***************************************************************************)
\* The entries of a response error array that name the uid.
EntriesFor(array, uid) ==
    {i \in DOMAIN syncResponse[array] : syncResponse[array][i].ResourceUID = uid}
\* The response array of the rows of a caller's action.
MatchingArray(action) == IF action = "addResource" THEN "AddErrors" ELSE "AddEdgeErrors"
\* The flush was called and every goroutine it or Queue started has returned.
FlushedAndFinished == mpc \in {"flushed", "count", "done"} /\ AllWorkersReturned

\* C6: one addResources (addEdges) row rejected by the database does not poison
\* the other rows of the request: with no connection error, once the batch is
\* flushed and all workers have finished, every valid row of the list is
\* inserted, exactly one error entry for the rejected row is in the matching
\* array, and the request has not failed as a whole.
C6_BadRowDoesNotPoison ==
    \A bad \in queued, good \in queued :
        (/\ bad.action \in {"addResource", "addEdge"}
         /\ good.action = bad.action /\ good # bad
         /\ badRows = {bad.uid} /\ closeErrors = 0)
        => /\ ~crashed
           /\ FlushedAndFinished =>
                 /\ good.uid \in (IF good.action = "addResource" THEN dbResources ELSE dbEdges)
                 /\ Cardinality(EntriesFor(MatchingArray(bad.action), bad.uid)) = 1

\* C7: for a dispatched snapshot of n >= 2 items of which exactly one makes the
\* round trip fail, after sendBatch and its retries: the other n-1 items are
\* each applied exactly once, the failing item is not applied, and exactly
\* one error entry for the failing item is recorded (and the worker did not crash).
C7_BisectAppliesTheRest ==
    \A w \in DOMAIN workers :
        LET snapshot == workers[w].snapshot
            failing == {i \in DOMAIN snapshot : StatementRejected(snapshot[i])}
        IN  (Len(snapshot) >= 2 /\ Cardinality(failing) = 1 /\ closeErrors = 0)
            => /\ ~crashed
               /\ ~Live(w) =>
                     \A i \in DOMAIN snapshot :
                         IF i \in failing
                         THEN /\ TimesApplied(snapshot[i]) = 0
                              /\ Cardinality(UNION {EntriesFor(a, snapshot[i].uid) :
                                                        a \in ErrorArrays}) = 1
                         ELSE TimesApplied(snapshot[i]) = 1

\* C8: when a single-item snapshot fails at exec, whatever the action of the
\* item, the worker records one SyncError for it in a response error array and
\* returns nil; it neither crashes nor dispatches the item again.
C8_SingleItemFailureRecorded ==
    /\ ~crashed
    /\ \A w \in DOMAIN workers : \A k \in DOMAIN workers[w].stack :
           LET f == workers[w].stack[k]
           IN  (f.pc = "return" /\ Len(f.items) = 1 /\ f.execErr # NoError
                   /\ f.closeErr = NoError)
               => /\ f.result = NoError
                  /\ \E a \in ErrorArrays : SyncError(f.items[1]) \in Range(syncResponse[a])

\* C9: every element of every response error array has the uid of an item the
\* caller passed to Queue and a non-empty message.
C9_ErrorsNameQueuedItems ==
    \A a \in ErrorArrays : \A i \in DOMAIN syncResponse[a] :
        /\ syncResponse[a][i].ResourceUID \in {it.uid : it \in queued}
        /\ syncResponse[a][i].Message # ""

\* C9 witness: an error was recorded for a queued item isolated by a retry of a
\* snapshot that also carried a bulk INSERT.
C9_Witness ==
    \E w \in DOMAIN workers :
        /\ Len(workers[w].snapshot) >= 2
        /\ \E i \in DOMAIN workers[w].snapshot : workers[w].snapshot[i].uid = ""
        /\ \E a \in ErrorArrays : Len(syncResponse[a]) > 0

\* C10 as stated: when flush returns, no worker of the batch is still running.
C10_NoWorkerAfterFlush == mpc = "flushed" => AllWorkersReturned

\* C10, amended: flush returns right after dispatching the last snapshot; once
\* the wait on the batch's counter that follows it returns, no worker (top-level
\* or retry) is running, so the totals of the response are the counts stored
\* after all the writes of the request.
C10_NoWorkerAfterWait ==
    /\ mpc \in {"count", "done"} => AllWorkersReturned /\ wg = 0
    /\ mpc = "done" => /\ totals.TotalResources = Cardinality(dbResources)
                       /\ totals.TotalEdges = Cardinality(dbEdges)

\* C10 witness: the totals were queried after two snapshots, one of them retried
\* in halves, had completed and inserted rows.
C10_Witness ==
    /\ mpc = "done"
    /\ Len(workers) >= 2
    /\ \E a \in ErrorArrays : Len(syncResponse[a]) > 0
    /\ totals.TotalResources > 2

(***************************************************************************)
(* Claims about the sync handler, checked under SpecSync and SpecResubmit. *)
(***************************************************************************)
\* A step-level error of the request: a connection-fatal Close, a failed
\* reconciliation delete or a failed count query.
StepError ==
    connError # NoError \/ "ExecError" \in dbCalled \/ "CountError" \in dbCalled
\* The response reports no row error.
NoRowErrors == \A a \in ErrorArrays : syncResponse[a] = <<>>

\* C11: a step-level error (a worker's Close error containing "unexpected EOF"
\* or "failed to connect", a failed resync delete, a failed count query) makes
\* the response 500 with the body "Server error while processing the request."
\* and without a SyncResponse; a request with a valid body and no such error is
\* answered 200 with the JSON SyncResponse.
C11_StepErrorGives500 ==
    /\ [][\A w \in DOMAIN workers :
            (/\ Live(w) /\ Top(w).pc = "process"
             /\ Top(w).closeErr \in {"unexpected EOF", "failed to connect"}
             /\ workers'[w] # workers[w])
            => connError' # NoError]_vars
    /\ []((mpc = "responded" /\ payload.valid)
            => IF StepError
               THEN status = StatusInternalServerError /\ body = ServerErrorMsg
               ELSE status = StatusOK /\ body = SyncResponseJson)
    /\ [](body = SyncResponseJson => status = StatusOK)

\* C11 witness: a worker's Close returned "unexpected EOF" and the request was
\* answered 500 with the server error message.
C11_Witness ==
    /\ mpc = "responded" /\ connError = "unexpected EOF"
    /\ status = StatusInternalServerError /\ body = ServerErrorMsg

\* C12: a body that is not valid JSON is answered 400 and the database is not
\* contacted: no Query, no Exec, no SendBatch, no worker, no row changed.
C12_BadBodyNoDatabase ==
    /\ (mpc = "responded" /\ ~payload.valid) => status = StatusBadRequest
    /\ status = StatusBadRequest => ~payload.valid
    /\ ~payload.valid =>
          /\ dbCalled = {} /\ reads = {}
          /\ workers = <<>> /\ wg = 0 /\ queued = {} /\ applied = <<>>
          /\ dbResources = InitialResources /\ dbEdges = InitialEdges
          /\ mpc \in {"decode", "badRequest", "responded"}

\* C12 witness: the request with the unparsable body has been answered 400.
C12_Witness == mpc = "responded" /\ status = StatusBadRequest /\ ~payload.valid

\* C13: after a clearAll request answered 200 without row errors, the
\* non-cluster-node resources of the cluster are the payload's resources and its
\* non-interCluster edges are the payload's edges; the cluster-node row and the
\* interCluster edge are still there; totalDeleted and totalEdgesDeleted count
\* the rows the database had and the payload does not declare.
C13_ClearAllReconciles ==
    (mpc = "responded" /\ status = StatusOK /\ payload.clearAll /\ NoRowErrors) =>
        /\ ExistingResources = PayloadResources(payload)
        /\ ExistingEdges = PayloadEdges(payload)
        /\ ClusterNodeUid \in dbResources /\ InterClusterEdge \in dbEdges
        /\ syncTotals.TotalDeleted =
              Cardinality((InitialResources \ {ClusterNodeUid}) \ PayloadResources(payload))
        /\ syncTotals.TotalEdgesDeleted =
              Cardinality((InitialEdges \ {InterClusterEdge}) \ PayloadEdges(payload))

\* C14: in a clearAll request both reconciliation read queries have completed
\* before the request's first write is enqueued or sent to the database.
C14_ReadsBeforeWrites ==
    [][(/\ payload.clearAll
        /\ \/ dbResources' # dbResources \/ dbEdges' # dbEdges
           \/ queued' # queued \/ workers' # workers
           \/ "Exec" \in dbCalled' \ dbCalled)
       => reads = {"resources", "edges"}]_vars

\* C14 witness: a clearAll request that read both tables, deleted a stale row
\* and dispatched a snapshot.
C14_Witness ==
    /\ payload.clearAll /\ reads = {"resources", "edges"}
    /\ syncTotals.TotalDeleted > 0 /\ Len(workers) > 0

\* C15: submitting the same SyncEvent a second time leaves the tables as the
\* first submission left them: every statement of the second submission is
\* accepted, the request is answered 200, and no row the first one stored is lost.
C15_ResubmitIdempotent ==
    round = 2 =>
        /\ ~crashed
        /\ \A w \in DOMAIN workers : \A k \in DOMAIN workers[w].stack :
               workers[w].stack[k].execErr = NoError
        /\ mpc = "responded" =>
              /\ status = StatusOK
              /\ dbResources = dbAfterFirst.resources /\ dbEdges = dbAfterFirst.edges

(***************************************************************************)
(* Claims about the cluster lifecycle, checked under SpecCluster.          *)
(***************************************************************************)
InTrail(call) == \E i \in DOMAIN trail : trail[i] = call
DeleteFinished(kind) == cpc = "idle" /\ event.op = "delete" /\ event.kind = kind
EventUid == ClusterUid(DeletedCluster(event))
InCascade == cpc \in {"deleteResources", "deleteEdges", "commit"}

\* C16: the cascade delete is atomic. An attempt of the delete transaction
\* either commits the deletes of both tables or changes neither table and has
\* rolled the transaction back; no exit of DeleteClusterResourcesTxn leaves a
\* transaction open or with only one of the deletes in it.
C16_CascadeDeleteAtomic ==
    /\ [](leakedTxs = <<>>)
    /\ [](tx.open => InCascade)
    /\ [][clusterRows' # clusterRows =>
             /\ cpc = "commit"
             /\ clusterRows'.resources =
                   {r \in clusterRows.resources : r.cluster # tx.cluster}
             /\ clusterRows'.edges = {r \in clusterRows.edges : r.cluster # tx.cluster}]_vars

C19_InfoDeleteDoesNothing ==
    (event.op = "delete" /\ event.kind = "ManagedClusterInfo") =>
        /\ cpc \in {"delete", "idle"}
        /\ trail = <<>>
        /\ ~tx.open
        /\ existingClustersCache = entry.cache
        /\ clusterNodes = entry.nodes
        /\ clusterRows = entry.rows

\* C19 witness: a ManagedClusterInfo delete has finished for a cluster that is
\* cached and has its node row and rows in both tables.
C19_Witness ==
    /\ DeleteFinished("ManagedClusterInfo")
    /\ ClusterUid(event.name) \in DOMAIN existingClustersCache
    /\ ClusterUid(event.name) \in DOMAIN clusterNodes
    /\ RowsOf(event.name).resources # {} /\ RowsOf(event.name).edges # {}

\* The step in which UpsertCluster returns, whether it executed the INSERT in
\* it, and whether the cache calls for the INSERT.
UpsertReturns(from) == cpc \in from /\ cpc' = "idle"
InsertExecuted ==
    /\ Len(trail') = Len(trail) + 1
    /\ trail'[Len(trail')] \in {"Exec:upsert", "Exec:upsert:err"}
AbsentOrDiffers ==
    \/ resource.uid \notin DOMAIN existingClustersCache
    \/ existingClustersCache[resource.uid] # resource.props
WritesIffAbsentOrDiffers ==
    /\ InsertExecuted <=> AbsentOrDiffers
    /\ ~AbsentOrDiffers =>
          /\ existingClustersCache' = existingClustersCache
          /\ clusterNodes' = clusterNodes
    /\ (InsertExecuted /\ trail'[Len(trail')] = "Exec:upsert") =>
          /\ existingClustersCache'[resource.uid] = resource.props
          /\ clusterNodes'[resource.uid] = JsonMarshal(resource.props)

C23_QueueFailsIffConnError ==
    [][ /\ (mpc = "queue" /\ mpc' = "failed")
            => /\ connError # NoError
               /\ UNCHANGED <<connError, items, resourceInsertQ, edgeInsertQ, syncResponse,
                              wg, workers, queued>>
        /\ queued' # queued => connError = NoError
        /\ connError # NoError => connError' # NoError ]_vars
\* A Queue call was refused while an accepted item was still pending.
C23_Witness == mpc = "failed" /\ connError # NoError /\ Len(items) > 0

\* The step a call of sendBatch takes from line 341 when Close returned closeErr,
\* and the frame it leaves on the worker's stack.
ProcessesCloseError(w, kinds) ==
    /\ Live(w) /\ Top(w).pc = "process" /\ Top(w).closeErr \in kinds
    /\ workers'[w] # workers[w]
TopAfter(w) == workers'[w].stack[Len(workers'[w].stack)]
ReturnsWithoutRetry(w) ==
    /\ Len(workers') = Len(workers)
    /\ Len(workers'[w].stack) = Len(workers[w].stack)
    /\ TopAfter(w).pc = "return"
    /\ TopAfter(w).result # NoError
    /\ UNCHANGED <<syncResponse, wg>>

\* C24: a call of sendBatch whose Close returns "unexpected EOF" or "failed to
\* connect" stores that error in connError and returns an error; it calls no
\* retry, starts no worker and records no per-row error, whatever execErr and
\* the number of items are.
C24_FatalCloseSetsConnError ==
    [][\A w \in DOMAIN workers :
          ProcessesCloseError(w, {"unexpected EOF", "failed to connect"})
              => /\ connError' = Top(w).closeErr
                 /\ ReturnsWithoutRetry(w) ]_vars
\* Close failed to connect for a batch of several items that Exec had rejected.
C24_Witness ==
    \E w \in DOMAIN workers :
        /\ Live(w) /\ Top(w).pc = "return"
        /\ Top(w).closeErr = "failed to connect" /\ connError = "failed to connect"
        /\ Top(w).execErr # NoError /\ Len(Top(w).items) > 1
        /\ Top(w).result = FailedToConnect

\* C25: a call of sendBatch whose Close returns any other error, a cancelled
\* context included, returns that error; it calls no retry, records no per-row
\* error and leaves connError as it was, so that Queue is still accepted.
C25_OperationalCloseError ==
    [][\A w \in DOMAIN workers :
          ProcessesCloseError(w, CloseErrorKinds \ {"unexpected EOF", "failed to connect"})
              => /\ connError' = connError
                 /\ TopAfter(w).result = Top(w).closeErr
                 /\ ReturnsWithoutRetry(w) ]_vars
\* Close reported a cancelled context for a batch of several items that Exec
\* had rejected; connError is unset and an accepted item is pending.
C25_Witness ==
    /\ connError = NoError /\ Len(items) > 0
    /\ \E w \in DOMAIN workers :
        /\ Live(w) /\ Top(w).pc = "return"
        /\ Top(w).closeErr = "context canceled" /\ Top(w).result = "context canceled"
        /\ Top(w).execErr # NoError /\ Len(Top(w).items) > 1

\* C26: when the second retry of a bisected batch returns, the bisecting call
\* returns no error if at least one of the two retries returned no error, and
\* an error only if both retries returned one.
C26_BisectSucceedsIfAHalfDoes ==
    [][\A w \in DOMAIN workers :
          LET stack == workers[w].stack
              n == Len(stack)
          IN  (/\ Live(w) /\ Top(w).pc = "return" /\ n > 1
               /\ stack[n - 1].pc = "half2"
               /\ workers'[w] # workers[w])
                  => (TopAfter(w).result = NoError
                        <=> (stack[n - 1].err1 = NoError \/ Top(w).result = NoError)) ]_vars

\* The pending list a Queue call leaves: the snapshot it handed to a new worker,
\* or items.
PendingAfter ==
    IF Len(workers') > Len(workers) THEN workers'[Len(workers')].snapshot ELSE items'
\* What Queue(item) does to an insert queue q and to the pending list, for the
\* action `insert` that is grouped into `bulk` statements.
GroupsInserts(item, q, qAfter, bulk) ==
    LET rows == Append(q, item.values[1])
    IN  IF Len(rows) = BatchSize
        THEN /\ PendingAfter = Append(items, [action |-> bulk, uid |-> "", values |-> rows])
             /\ qAfter = <<>>
        ELSE /\ PendingAfter = items
             /\ qAfter = rows
Individually == {"addResource", "addEdge"}

\* C27: no addResource or addEdge item is ever in the pending list or in a
\* worker's snapshot; the rows of such items accumulate in their insert queue,
\* and exactly when they number batchSize one bulk item with those rows, in the
\* order queued, is appended and the queue is emptied; any other item is
\* appended as one pending item; after every Queue call the two insert queues
\* and the pending list are shorter than batchSize.
C27_BulkGroupingShape ==
    /\ Len(resourceInsertQ) < BatchSize
    /\ Len(edgeInsertQ) < BatchSize
    /\ Len(items) < BatchSize
    /\ \A i \in DOMAIN items : items[i].action \notin Individually
    /\ \A w \in DOMAIN workers : \A i \in DOMAIN workers[w].snapshot :
           workers[w].snapshot[i].action \notin Individually
AppendingTo(w) == ErrorArrayFor(Top(w).items[1].action)
C28_AppendsExclusive ==
    \A v, w \in DOMAIN workers :
        (/\ v # w /\ Live(v) /\ Live(w)
         /\ Top(v).pc = "append" /\ Top(w).pc = "append")
            => AppendingTo(v) # AppendingTo(w)
C28_NoAppendLost ==
    [][ /\ C28_AppendsExclusive'
        /\ \A a \in ErrorArrays :
              /\ Len(syncResponse'[a]) >= Len(syncResponse[a])
              /\ SubSeq(syncResponse'[a], 1, Len(syncResponse[a])) = syncResponse[a] ]_vars

(***************************************************************************)
(* The cluster delete transaction and its retry loop.                      *)
(***************************************************************************)
ExecErrors == {"Exec:resources:err", "Exec:edges:err", "Exec:node:err"}
\* C29: in an execution of the cluster delete transaction, a statement error
\* is followed by Rollback and Commit is not called after it.
C29_NoCommitAfterStatementError ==
    \A i \in DOMAIN trail :
        trail[i] \in ExecErrors
            => /\ i < Len(trail) /\ trail[i + 1] = "Rollback"
               /\ \A j \in DOMAIN trail : j > i => trail[j] \notin {"Commit", "Commit:err"}

\* C30: the retry loop of the cluster delete is bounded: a delete that was
\* started returns to its caller, even when every attempt fails.
C30_RetryLoopBounded == [](cpc # "idle" => <>(cpc = "idle"))

(***************************************************************************)
(* Concurrent handlers of the two informers.                               *)
(***************************************************************************)
InCriticalSection(h) == hpc[h] \in {"transform", "clusterInDB", "decide", "updateCache"}
ClusterNodeUid1 == ClusterUid(ManagedClusterName)
\* The handler h leaves line 157 of UpsertCluster.
Decides(h) == hpc[h] = "decide" /\ hpc'[h] # "decide"
NoWrite ==
    /\ clusterNodes' = clusterNodes
    /\ dbFailures' = dbFailures
    /\ lastWritten' = lastWritten

AllEventsHandled ==
    \A h \in Informers : inbox[h] = <<>> /\ hpc[h] = "idle"
C22_RowIffClusterKnown ==
    /\ []((AllEventsHandled /\ dbFailures = 0)
            => (ClusterNodeUid1 \in DOMAIN clusterNodes <=> known))
    /\ [][\A h \in Informers :
            (Decides(h) /\ NoWrite /\ dbFailures = 0)
                => hresource[h].uid \in DOMAIN clusterNodes]_vars

\* C31: the sleep before re-attempt k of a cluster deletion, k = 0 after the
\* first failure, is min(500 * k, MaxBackoffMS) milliseconds: the delays grow by
\* 500 ms per retry, never decrease and never exceed MaxBackoffMS; and a failed
\* attempt is followed by an attempt of the whole transaction, from its first
\* call.
InCascadeTxn == cpc \in {"beginTx", "deleteResources", "deleteEdges", "commit"}
C31_BackoffDelays ==
    /\ [](/\ Len(slept) = retry
          /\ \A k \in DOMAIN slept :
                /\ slept[k] <= 500 * (k - 1)
                /\ slept[k] <= MaxBackoffMS
                /\ slept[k] \in {500 * (k - 1), MaxBackoffMS}
                /\ k > 1 => slept[k] >= slept[k - 1]
                /\ (k > 1 /\ slept[k] < MaxBackoffMS) => slept[k] = slept[k - 1] + 500)
    /\ [][retry' = retry + 1
            => /\ InCascadeTxn => (cpc' = "beginTx" /\ tx' = NoTx)
               /\ cpc = "nodeDelete" => cpc' = "nodeDelete"]_vars
\* Three attempts of one deletion failed and the third sleep is the capped one.
C31_Witness ==
    /\ Len(slept) >= 3
    /\ slept[2] = 500
    /\ slept[3] = MaxBackoffMS
    /\ slept[3] < 1000
    /\ cpc = "beginTx"

\* C32: merging keeps the other kind's fields. The properties an upsert of
\* cluster C writes hold every key of the event with the event's value and every
\* other key cached for cluster__C with its cached value, so the keys written
\* for C are never fewer than the keys cached for it.
TransformedEvent(ev) ==
    IF ev.kind = "ManagedCluster" THEN TransformManagedCluster(ev)
    ELSE TransformManagedClusterInfo(ev)
WritesClusterNode == cpc = "decide" /\ clusterNodes' # clusterNodes
C32_MergeKeepsOtherKind ==
    [][WritesClusterNode =>
          LET uid == resource.uid
              new == TransformedEvent(event)
              written == clusterNodes'[uid]
          IN  /\ \A k \in DOMAIN new : written[k] = JsonMarshal(new)[k]
              /\ uid \in DOMAIN existingClustersCache =>
                    \A k \in DOMAIN existingClustersCache[uid] \ DOMAIN new :
                        /\ k \in DOMAIN written
                        /\ written[k] = JsonMarshal(existingClustersCache[uid])[k]]_vars

\* C33: an INSERT ... ON CONFLICT that fails leaves the cluster cache as it
\* was, with no entry added or modified, so the properties it could not write
\* are not up to date for the cache and an event that brings them again
\* attempts the write again.
InsertFails == cpc = "decide" /\ trail' = Append(trail, "Exec:upsert:err")
InsertFailed == cpc = "idle" /\ trail # <<>> /\ trail[Len(trail)] = "Exec:upsert:err"
C33_FailedInsertLeavesCache ==
    /\ [][InsertFails => existingClustersCache' = existingClustersCache]_vars
    /\ [](InsertFailed =>
            /\ ~ClusterPropsUpToDate(existingClustersCache, resource.uid, resource.props)
            /\ ~ClusterPropsUpToDate(existingClustersCache, resource.uid,
                                     TransformOf(event, existingClustersCache)))
\* The INSERT of changed properties failed for a cluster that is cached.
C33_Witness ==
    /\ InsertFailed
    /\ resource.uid \in DOMAIN existingClustersCache
    /\ resource.uid \in DOMAIN entry.cache

\* C34: every access to the cache map is made under the lock of the cache, so
\* no handler reads the map, the merge of an upsert included, while another
\* handler writes it (the update after an upsert, the eviction after a delete).
C34_NoReadOverlapsWrite ==
    \A g, h \in Informers :
        ~(/\ MakesAccess(g) /\ accessing[g].mode = "write"
          /\ MakesAccess(h) /\ accessing[h].mode = "read")

\* C35: after every probe of a supervisor: the resource not found while the
\* informer runs, the informer is stopped; the probe succeeded while it does not
\* run, it is started, for the first time or again; the probe failed otherwise,
\* the running state is as before. At most one informer run of a group/version
\* is active at any time.
ProbeHandled(gv) ==
    /\ supervisor[gv].pc \in {"select", "stopOnMissing"}
    /\ supervisor'[gv].pc = "sleep"
C35_SupervisorStateMachine ==
    /\ [](\A gv \in GroupVersions :
            /\ supervisor[gv].runs <= 1
            /\ supervisor[gv].pc \in {"select", "sleep"}
                  => (supervisor[gv].informerRunning <=> supervisor[gv].runs = 1))
    /\ [][\A gv \in GroupVersions :
            ProbeHandled(gv) =>
                LET before == supervisor[gv]
                    after == supervisor'[gv]
                IN  CASE after.err = ResourceNotFound /\ before.informerRunning ->
                            ~after.informerRunning /\ after.runs = 0
                      [] after.err = NoError /\ ~before.informerRunning ->
                            after.informerRunning /\ after.runs = 1
                      [] OTHER ->
                            /\ after.informerRunning = before.informerRunning
                            /\ after.runs = before.runs]_vars
\* An informer stopped because its resource vanished runs again.
C35_Witness ==
    \E gv \in GroupVersions :
        /\ supervisor[gv].starts = 2
        /\ supervisor[gv].informerRunning
        /\ supervisor[gv].runs = 1
        /\ supervisor[gv].pc = "sleep"

\* C36: once the context is cancelled every supervisor stops its informer and
\* returns, whether its informer never ran, runs, or was stopped before.
SupervisorsReturned ==
    \A gv \in GroupVersions : supervisor[gv].pc = "returned" /\ supervisor[gv].runs = 0
C36_CancelStopsSupervisors == [](ctxDone => <>SupervisorsReturned)

\* C37: the limiter applies its rules in order. A request that found its
\* cluster in the tracker is answered "A previous request from this cluster is
\* processing, retry later.", whatever the size of the tracker it read and for
\* "local-cluster" too; "too many pending requests" is answered only to a
\* request that did not find its cluster in the tracker.
Decided(r) == rpc[r] \in {"rejected", "handler", "deferred", "done"}
C37_DuplicateRuleFirst ==
    \A r \in Reqs :
        Decided(r) =>
            /\ foundClusterProcessing[r]
                  <=> (rpc[r] = "rejected" /\ responseBody[r] = PreviousRequestMsg)
            /\ responseBody[r] = TooManyRequestsMsg =>
                  /\ rpc[r] = "rejected"
                  /\ ~foundClusterProcessing[r]
                  /\ requestCount[r] >= RequestLimit
                  /\ clusterName[r] # LocalCluster
\* A second request of a cluster other than local-cluster found the tracker full
\* and its own cluster in it, and got the answer of the duplicate rule.
C37_Witness ==
    \E r, q \in Reqs :
        /\ rpc[r] = "rejected" /\ rpc[q] = "handler"
        /\ clusterName[r] = clusterName[q]
        /\ clusterName[r] # LocalCluster
        /\ foundClusterProcessing[r]
        /\ requestCount[r] >= RequestLimit
        /\ responseBody[r] = PreviousRequestMsg

\* C38: once flush has run after the Queue calls, with no connection error,
\* every item passed to Queue has been handed to a worker exactly once: an item
\* that is no insert is in exactly one snapshot, the row of an addResource or
\* addEdge item is in exactly one bulk item, nothing else is in a snapshot,
\* the insert queues and items are empty; and a snapshot handed to a worker is
\* never changed afterwards.
IsInsert(item) == item.action \in {"addResource", "addEdge"}
BulkActionOf(item) == IF item.action = "addResource" THEN "bulkResources" ELSE "bulkInsertEdges"
SnapshotPlaces ==
    {p \in (DOMAIN workers) \X (1..MaxQueue) : p[2] \in DOMAIN workers[p[1]].snapshot}
At(p) == workers[p[1]].snapshot[p[2]]
HandedOver(item) ==
    IF IsInsert(item)
    THEN {<<p, j>> \in SnapshotPlaces \X (1..MaxQueue) :
             /\ At(p).action = BulkActionOf(item)
             /\ j \in DOMAIN At(p).values
             /\ At(p).values[j] = item.values[1]}
    ELSE {p \in SnapshotPlaces : At(p) = item}
FlushReturned == mpc \in {"flushed", "count", "done"}
C38_EveryItemHandedOverOnce ==
    /\ [](FlushReturned =>
            /\ items = <<>> /\ resourceInsertQ = <<>> /\ edgeInsertQ = <<>>
            /\ \A item \in queued : Cardinality(HandedOver(item)) = 1
            /\ \A p \in SnapshotPlaces :
                  IF At(p).action \in {"bulkResources", "bulkInsertEdges"}
                  THEN \A j \in DOMAIN At(p).values :
                          \E item \in queued :
                              /\ BulkActionOf(item) = At(p).action /\ IsInsert(item)
                              /\ item.values[1] = At(p).values[j]
                  ELSE At(p) \in queued)
    /\ [][\A w \in DOMAIN workers :
            w \in DOMAIN workers' /\ workers'[w].snapshot = workers[w].snapshot]_vars
\* flush has handed over the rest after Queue dispatched a full snapshot: two
\* workers, an insert row in a bulk item and an item that is no insert.
C38_Witness ==
    /\ FlushReturned
    /\ Len(workers) >= 2
    /\ \E item \in queued : IsInsert(item)
    /\ \E item \in queued : ~IsInsert(item)
    /\ Cardinality(queued) = MaxQueue

\* C39: the wait counter is balanced. It equals the number of calls of
\* sendBatch announced and not yet returned: the calls on the workers' stacks
\* and, for each call between its two retries, the second retry, which is
\* announced with the first. It is never negative, it is raised in the step
\* that starts a goroutine or a first retry, and it is zero only when no call
\* of sendBatch is left.
AnnouncedBy(stack) ==
    Len(stack) + Cardinality({i \in DOMAIN stack : stack[i].pc = "half1"})
RECURSIVE AnnouncedUpTo(_)
AnnouncedUpTo(n) ==
    IF n = 0 THEN 0 ELSE AnnouncedUpTo(n - 1) + AnnouncedBy(workers[n].stack)
CallStarts(w) ==
    \/ w \notin DOMAIN workers
    \/ Len(workers'[w].stack) > Len(workers[w].stack)
C39_WaitCounterBalanced ==
    /\ [](/\ wg = AnnouncedUpTo(Len(workers))
          /\ wg >= 0
          /\ wg = 0 => \A w \in DOMAIN workers : ~Live(w))
    /\ [][\A w \in DOMAIN workers' :
            CallStarts(w) => wg' = wg + (IF w \in DOMAIN workers THEN 2 ELSE 1)]_vars
\* A worker is in the first retry of its snapshot while another worker runs:
\* four calls are announced.
C39_Witness ==
    /\ wg >= 4
    /\ \E w, v \in DOMAIN workers :
          /\ w # v /\ Live(v)
          /\ Len(workers[w].stack) >= 2
          /\ workers[w].stack[1].pc = "half1"

\* C40: the bisect retry terminates. sendBatch is never called with no items;
\* the two retries of a call with n >= 2 items get non-empty parts that make up
\* its items, in order and with nothing twice; and a snapshot of n items costs
\* at most 2n - 1 round trips, however many of its items fail.
StartsSecondRetry(w) ==
    /\ Live(w) /\ Len(workers[w].stack) >= 2
    /\ workers[w].stack[Len(workers[w].stack) - 1].pc = "half1"
    /\ Top(w).pc = "return"
    /\ workers'[w].stack # workers[w].stack
C40_BisectTerminates ==
    /\ [](\A w \in DOMAIN workers :
            /\ workers[w].snapshot # <<>>
            /\ \A i \in DOMAIN workers[w].stack : workers[w].stack[i].items # <<>>
            /\ workers[w].trips <= 2 * Len(workers[w].snapshot) - 1)
    /\ [][\A w \in DOMAIN workers :
            StartsSecondRetry(w) =>
                LET n == Len(workers[w].stack)
                    first == workers[w].stack[n].items
                    second == workers'[w].stack[n].items
                IN  /\ first # <<>> /\ second # <<>>
                    /\ first \o second = workers[w].stack[n - 1].items]_vars
\* A worker has returned after as many round trips as the bound allows its
\* snapshot of several items.
C40_Witness ==
    \E w \in DOMAIN workers :
        /\ Len(workers[w].snapshot) >= 2
        /\ workers[w].trips = 2 * Len(workers[w].snapshot) - 1
        /\ ~Live(w)

====
